---- MODULE Spec2Model ----
(***************************************************************************)
(* Build optimisation engine of MH-Wilds-Tools                             *)
(* (src/src/MH_Wilds_tools/solver.py).                                     *)
(*                                                                         *)
(* solve() translates the catalog (armor, charms, jewels, talents,         *)
(* weapons) and a request (weapon, wish-list) into a CP-SAT model, lets    *)
(* the backend search it and decodes the assignment into a Solution.       *)
(* The model below keeps the value the backend gives to every variable of  *)
(* OptimizationVariables as state; every constraint the code adds with     *)
(* model.Add / AddMinEquality / AddAbsEquality is the set of values the    *)
(* constraint admits, and the backend may only hold assignments drawn from *)
(* these sets.  The backend's search is opaque: it is modelled as moving   *)
(* from one feasible assignment to a neighbouring one, starting from the   *)
(* assignment with nothing equipped.                                       *)
(***************************************************************************)
EXTENDS Integers, Sequences, FiniteSets, TLC

----------------------------------------------------------------------------
(* Bounds of the model *)

\* largest value explored for one jewel's "uses" variable (code: ub=100)
MaxUses == 3
\* largest wish-list weight offered to solve (app.py lets the user type any)
MaxWeight == 2

----------------------------------------------------------------------------
(* Program constants *)

\* ub of every talent-level variable, also the upper series sentinel
TalentUb == 30
\* ub of the per-piece slot-count variable
SlotUb == 4
\* ub of the slot-count sums
EmplacementUb == 30
\* ub of nb_of_jewel_use and of total_talent
UsesUb == 100
\* ub of abs_diff
AbsDiffUb == 100
\* multiplier of the wish terms in the objective (10**9)
WishScale == 1000000000
\* multiplier of the free-slot term in the objective (10**3)
FreeScale == 1000

----------------------------------------------------------------------------
(* Generic helpers *)

Min(a, b) == IF a <= b THEN a ELSE b

Abs(a) == IF a >= 0 THEN a ELSE 0 - a

RECURSIVE Pow10(_)
Pow10(n) == IF n <= 0 THEN 1 ELSE 10 * Pow10(n - 1)

\* sum(f[x] for x in S)
RECURSIVE SumOver(_, _)
SumOver(S, f) ==
    IF S = {} THEN 0
    ELSE LET x == CHOOSE y \in S : TRUE
         IN  f[x] + SumOver(S \ {x}, f)

\* sum of the entries of a sequence of integers
RECURSIVE SumSeq(_)
SumSeq(s) == IF s = <<>> THEN 0 ELSE Head(s) + SumSeq(Tail(s))

\* the elements of a sequence
Range(s) == {s[i] : i \in DOMAIN s}

\* all functions f over DOMAIN S with f[x] \in S[x]
RECURSIVE FunsIn(_)
FunsIn(S) ==
    IF DOMAIN S = {} THEN {<<>>}
    ELSE LET x == CHOOSE y \in DOMAIN S : TRUE
             rest == [y \in DOMAIN S \ {x} |-> S[y]]
         IN  {f @@ (x :> v) : f \in FunsIn(rest), v \in S[x]}

----------------------------------------------------------------------------
(* The catalog: the five tables read by the module-level pl.read_parquet   *)

ArmorRow(p, n, t, l, j1, j2, j3) ==
    [piece |-> p, name |-> n, talent_name |-> t, talent_level |-> l,
     jewel_0 |-> 0, jewel_1 |-> j1, jewel_2 |-> j2, jewel_3 |-> j3,
     jewel_4 |-> 0]

CharmRow(n, t, l) == [name |-> n, talent_name |-> t, talent_lvl |-> l]

JewelRow(n, size, tl) == [name |-> n, jewel_lvl |-> size, jewel_talent_list |-> tl]

TalentRow(n, g, lv) == [name |-> n, group |-> g, levels |-> lv]

WeaponRow(n, j, tl) == [name |-> n, jewels |-> j, talents |-> tl]

T(n, l) == [name |-> n, lvl |-> l]

\* A catalog with every kind of talent, slots and jewels of the three sizes
\* and of both groups.
CatalogMixed ==
    [armor |-> {
        ArmorRow("Head",  "HelmA", "Atk",  2, 1, 0, 0),
        ArmorRow("Head",  "HelmA", "Set",  1, 1, 0, 0),
        ArmorRow("Head",  "HelmB", "Pack", 1, 0, 0, 1),
        ArmorRow("Head",  "HelmB", "Set",  2, 0, 0, 1),
        ArmorRow("Chest", "MailA", "Atk",  2, 0, 1, 0),
        ArmorRow("Chest", "MailA", "Pack", 1, 0, 1, 0),
        ArmorRow("Chest", "MailB", "Set",  2, 1, 1, 0)},
     charms |-> {
        CharmRow("CharmA", "Atk", 1),
        CharmRow("CharmP", "Pack", 1),
        CharmRow("CharmP", "Set", 1)},
     jewels |-> {
        JewelRow("AtkJ1",  1, <<T("Atk", 1)>>),
        JewelRow("AtkJ2",  2, <<T("Atk", 2)>>),
        JewelRow("AtkJ3",  3, <<T("Atk", 3)>>),
        JewelRow("EdgeJ1", 1, <<T("Edge", 1)>>)},
     talents |-> {
        TalentRow("Atk",  "Equip",  <<1, 2, 3>>),
        TalentRow("Edge", "Weapon", <<1, 2>>),
        TalentRow("Pack", "Group",  <<2>>),
        TalentRow("Set",  "Series", <<2, 4>>)},
     weapons |-> {
        WeaponRow("Blade", <<1, 0, 0>>, <<T("Edge", 1)>>)}]

\* A catalog where the talent Gem is granted by jewels only and can reach
\* level 4 with the slots of the armor; its weapon has no talent.
CatalogGem ==
    [armor |-> {
        ArmorRow("Head",  "CapA",  "Guard", 1, 0, 1, 0),
        ArmorRow("Head",  "CapB",  "Guard", 2, 1, 0, 0),
        ArmorRow("Chest", "VestA", "Guard", 1, 1, 1, 0),
        ArmorRow("Chest", "VestB", "Guard", 1, 0, 0, 1)},
     charms |-> {
        CharmRow("CharmG", "Guard", 1)},
     jewels |-> {
        JewelRow("GemJ1",  1, <<T("Gem", 1)>>),
        JewelRow("GemJ2",  2, <<T("Gem", 2)>>),
        JewelRow("KeenJ1", 1, <<T("Keen", 1)>>)},
     talents |-> {
        TalentRow("Guard", "Equip",  <<1, 2>>),
        TalentRow("Gem",   "Equip",  <<1, 2, 3, 4, 5>>),
        TalentRow("Keen",  "Weapon", <<1>>)},
     weapons |-> {
        WeaponRow("Lance", <<0, 1, 0>>, <<>>)}]

\* A catalog as the loader accepts it, where an armor piece grants a talent
\* that has no row in talents.
CatalogDangling ==
    [armor |-> {
        ArmorRow("Head", "CapA", "Lost", 1, 1, 0, 0)},
     charms |-> {
        CharmRow("CharmG", "Gem", 1)},
     jewels |-> {
        JewelRow("GemJ1", 1, <<T("Gem", 1)>>)},
     talents |-> {
        TalentRow("Gem", "Equip", <<1, 2>>)},
     weapons |-> {
        WeaponRow("Lance", <<0, 1, 0>>, <<>>)}]

\* A catalog where the Series talent Set has a row in talents and no armor
\* piece, charm, jewel or weapon that grants it.
CatalogSourceless ==
    [armor |-> {
        ArmorRow("Head", "CapA", "Guard", 1, 1, 0, 0)},
     charms |-> {
        CharmRow("CharmG", "Guard", 1)},
     jewels |-> {
        JewelRow("GemJ1", 1, <<T("Gem", 1)>>)},
     talents |-> {
        TalentRow("Guard", "Equip",  <<1, 2>>),
        TalentRow("Gem",   "Equip",  <<1, 2>>),
        TalentRow("Set",   "Series", <<2, 4>>)},
     weapons |-> {
        WeaponRow("Lance", <<0, 1, 0>>, <<>>)}]

\* A catalog with a jewel granting a Series talent, a jewel of size 4 and a
\* jewel granting a talent of each of the groups Equip and Weapon.  Its
\* armor piece and its charm grant 15 levels of Guard each, so that one
\* more level from a jewel takes the sum of Guard past 30.
CatalogEscape ==
    [armor |-> {
        ArmorRow("Head", "CapA", "Guard", 15, 1, 0, 0)},
     charms |-> {
        CharmRow("CharmG", "Guard", 15)},
     jewels |-> {
        JewelRow("SetJ1", 1, <<T("Set", 1)>>),
        JewelRow("BigJ4", 4, <<T("Guard", 1)>>),
        JewelRow("DuoJ1", 1, <<T("Guard", 1), T("Keen", 1)>>)},
     talents |-> {
        TalentRow("Guard", "Equip",  <<1, 2, 3>>),
        TalentRow("Keen",  "Weapon", <<1>>),
        TalentRow("Set",   "Series", <<2, 4>>)},
     weapons |-> {
        WeaponRow("Lance", <<0, 1, 0>>, <<>>)}]

Catalogs == {CatalogMixed, CatalogGem, CatalogDangling, CatalogSourceless,
             CatalogEscape}

\* every name of the catalogs in lexicographic order: what .sort() yields
SortedNames ==
    <<"AtkJ1", "AtkJ2", "AtkJ3", "BigJ4", "Blade", "CapA", "CapB",
      "CharmA", "CharmG", "CharmP", "Chest", "DuoJ1", "EdgeJ1", "GemJ1",
      "GemJ2", "Head", "HelmA", "HelmB", "KeenJ1", "Lance", "MailA", "MailB",
      "SetJ1", "VestA", "VestB">>

\* polars .unique().sort().to_list() of a column
sort(S) == SelectSeq(SortedNames, LAMBDA n : n \in S)

----------------------------------------------------------------------------
(* Tables derived at the start of solve                                    *)

NoTalent == "null"

gear_types(cat) == sort({r.piece : r \in cat.armor})

armor_piece_filtered(cat, gear_type) == {r \in cat.armor : r.piece = gear_type}

unique_armor_pieces_names(cat, gear_type) ==
    sort({r.name : r \in armor_piece_filtered(cat, gear_type)})

unique_charm_name(cat) == sort({r.name : r \in cat.charms})

\* weapons.filter(name == weapon_name).explode("talents").select(...)
\* a weapon without talents explodes into one row with null talent columns
weapon(cat, weapon_name) ==
    UNION {
        IF w.talents = <<>>
        THEN {[name |-> w.name, jewel_lvl1 |-> w.jewels[1],
               jewel_lvl2 |-> w.jewels[2], jewel_lvl3 |-> w.jewels[3],
               talent_name |-> NoTalent, talent_lvl |-> 0]}
        ELSE {[name |-> w.name, jewel_lvl1 |-> w.jewels[1],
               jewel_lvl2 |-> w.jewels[2], jewel_lvl3 |-> w.jewels[3],
               talent_name |-> w.talents[i].name,
               talent_lvl |-> w.talents[i].lvl] : i \in DOMAIN w.talents}
        : w \in {x \in cat.weapons : x.name = weapon_name}}

\* jewels.explode("jewel_talent_list").select(...)
all_jewels(cat) ==
    UNION {{[jewel_name |-> j.name, jewel_lvl |-> j.jewel_lvl,
             talent_name |-> j.jewel_talent_list[i].name,
             talent_lvl |-> j.jewel_talent_list[i].lvl]
            : i \in DOMAIN j.jewel_talent_list} : j \in cat.jewels}

\* all_jewels.join(talents.select("group", "name"), on="talent_name")
jewel_types(cat) ==
    {x \in {[jewel_name |-> r.jewel_name, jewel_lvl |-> r.jewel_lvl,
             talent_name |-> r.talent_name, talent_lvl |-> r.talent_lvl,
             group |-> t.group] : r \in all_jewels(cat), t \in cat.talents}
       : \E t \in cat.talents : t.name = x.talent_name /\ t.group = x.group}

unique_jewels_names(cat) == sort({r.jewel_name : r \in all_jewels(cat)})

\* the sizes under which _register_jewel_usage files the uses variables
jewel_lvls(cat) == {r.jewel_lvl : r \in all_jewels(cat)}

\* talents.explode("levels").filter(talent_lvl == max over name)
talents_lvl_max(cat, talent_name) ==
    LET t == CHOOSE x \in cat.talents : x.name = talent_name
    IN  CHOOSE m \in Range(t.levels) : \A l \in Range(t.levels) : l <= m

group_talent_names(cat) == {t.name : t \in {x \in cat.talents : x.group = "Group"}}

\* the Series talents that some armor piece, charm or jewel grants
talent_series_names_granted(cat) ==
    {t.name : t \in {x \in cat.talents :
        /\ x.group = "Series"
        /\ x.name \in {r.talent_name : r \in cat.armor}
                        \cup {r.talent_name : r \in cat.charms}
                        \cup {r.talent_name : r \in all_jewels(cat)}}}

talent_series_names(cat) == {t.name : t \in {x \in cat.talents : x.group = "Series"}}

----------------------------------------------------------------------------
(* Variables and constraints of the CP model.  For every variable the code *)
(* creates, the operator named after the function that creates it gives    *)
(* the set of values its constraints admit under the values of the         *)
(* variables created before it; an empty set makes the model infeasible.   *)

Bool(b) == IF b THEN 1 ELSE 0

\* var_talent_lvl of one armor row: == talent_level if equipped, == 0 if not
var_talent_lvl(row, use_armor) ==
    {v \in 0..TalentUb :
        /\ use_armor[row.piece][row.name] => v = row.talent_level
        /\ ~use_armor[row.piece][row.name] => v = 0}

\* _process_armor_pieces closing with sum(booleans of slot) <= 2
_process_armor_pieces_two(cat, use_armor, gear_type) ==
    /\ \A r \in armor_piece_filtered(cat, gear_type) :
            var_talent_lvl(r, use_armor) # {}
    /\ SumOver(Range(unique_armor_pieces_names(cat, gear_type)),
               [n \in Range(unique_armor_pieces_names(cat, gear_type)) |->
                    Bool(use_armor[gear_type][n])]) <= 2

\* the constraint closing _process_armor_pieces: sum(booleans of slot) <= 1
_process_armor_pieces(cat, use_armor, gear_type) ==
    /\ \A r \in armor_piece_filtered(cat, gear_type) :
            var_talent_lvl(r, use_armor) # {}
    /\ SumOver(Range(unique_armor_pieces_names(cat, gear_type)),
               [n \in Range(unique_armor_pieces_names(cat, gear_type)) |->
                    Bool(use_armor[gear_type][n])]) <= 1

\* the size-i slot count of the piece: unique(subset="name") keeps one row
jewel_levels(cat, gear_type, name, i) ==
    LET row == CHOOSE r \in armor_piece_filtered(cat, gear_type) : r.name = name
    IN  CASE i = 1 -> row.jewel_1
          [] i = 2 -> row.jewel_2
          [] i = 3 -> row.jewel_3
          [] i = 4 -> row.jewel_4

\* var_nb_jewel of one piece and one slot size
var_nb_jewel(cat, use_armor, gear_type, name, i) ==
    {v \in 0..SlotUb :
        /\ use_armor[gear_type][name] => v = jewel_levels(cat, gear_type, name, i)
        /\ ~use_armor[gear_type][name] => v = 0}

\* jewel_emplacement_sums[gear_type][lvl]: the sum over the pieces of the slot
_create_jewel_slots_for_armor_pieces(cat, use_armor, gear_type) ==
    LET names == Range(unique_armor_pieces_names(cat, gear_type))
        ok == \A n \in names : \A i \in 1..4 :
                var_nb_jewel(cat, use_armor, gear_type, n, i) # {}
        nb(n, i) == CHOOSE v \in var_nb_jewel(cat, use_armor, gear_type, n, i) : TRUE
    IN  IF ~ok THEN {}
        ELSE FunsIn([i \in 1..4 |->
                {v \in 0..EmplacementUb :
                    v = SumOver(names, [n \in names |-> nb(n, i)])}])

\* src/solver.py: the rows of the piece are iterated without
\* unique(subset="name"), one var_nb_jewel per row and per size is appended
\* to jewel_emplacement_lists, and the sum runs over all of them
legacy_create_jewel_slots_for_armor_pieces(cat, use_armor, gear) ==
    LET rows == armor_piece_filtered(cat, gear)
        nb(r, i) == CHOOSE v \in 0..SlotUb :
                        /\ use_armor[gear][r.name] =>
                              v = (CASE i = 1 -> r.jewel_1 [] i = 2 -> r.jewel_2
                                     [] i = 3 -> r.jewel_3 [] i = 4 -> r.jewel_4)
                        /\ ~use_armor[gear][r.name] => v = 0
    IN  FunsIn([i \in 1..4 |->
            {v \in 0..EmplacementUb :
                v = SumOver(rows, [r \in rows |-> nb(r, i)])}])

\* jewel_emplacement_sums_total_armor[lvl]
_calculate_total_armor_jewel_emplacements(cat, jewel_emplacement_sums) ==
    FunsIn([i \in 1..4 |->
        {v \in 0..EmplacementUb :
            v = SumOver(Range(gear_types(cat)),
                        [g \in Range(gear_types(cat)) |->
                            jewel_emplacement_sums[g][i]])}])

\* the constraint closing _process_charms: sum(charm booleans) <= 1
_process_charms(cat, use_charm) ==
    /\ \A r \in cat.charms :
          {v \in 0..TalentUb : /\ use_charm[r.name] => v = r.talent_lvl
                               /\ ~use_charm[r.name] => v = 0} # {}
    /\ SumOver(Range(unique_charm_name(cat)),
               [n \in Range(unique_charm_name(cat)) |-> Bool(use_charm[n])]) <= 1

\* the weapon rows that register a talent variable (talent_lvl not falsy)
weapon_talent_rows(cat, weapon_name) ==
    {r \in weapon(cat, weapon_name) : r.talent_lvl # 0}

\* _set_weapon_talents: every registered variable is in 1..30 and == talent_lvl
_set_weapon_talents(cat, weapon_name) ==
    \A r \in weapon_talent_rows(cat, weapon_name) :
        {v \in 1..TalentUb : v = r.talent_lvl} # {}

\* jewel_emplacement_sums_total_weapon[lvl], read from row 0 of the weapon
_create_weapon_jewel_slots(cat, weapon_name) ==
    LET row == CHOOSE r \in weapon(cat, weapon_name) : TRUE
    IN  FunsIn([i \in 1..3 |->
            {v \in 0..EmplacementUb :
                v = (CASE i = 1 -> row.jewel_lvl1
                       [] i = 2 -> row.jewel_lvl2
                       [] i = 3 -> row.jewel_lvl3)}])

\* the size under which _register_jewel_usage files the jewel (last row read)
jewel_lvl_of(cat, jewel_name) ==
    (CHOOSE r \in all_jewels(cat) : r.jewel_name = jewel_name).jewel_lvl

\* _register_jewel_usage: total_talent == nb_of_jewel_use * talent_lvl, in 0..100
_register_jewel_usage(cat, jewel_uses, jewel_name) ==
    /\ jewel_uses[jewel_lvl_of(cat, jewel_name)][jewel_name] \in 0..UsesUb
    /\ \A r \in {x \in all_jewels(cat) : x.jewel_name = jewel_name} :
          jewel_uses[jewel_lvl_of(cat, jewel_name)][jewel_name] * r.talent_lvl
              \in 0..UsesUb

\* the number of jewels of the names in use under one size, not their uses
uses_of_names(jewel_uses, level, names) ==
    IF level \in DOMAIN jewel_uses
    THEN Cardinality({n \in DOMAIN jewel_uses[level] :
                        n \in names /\ jewel_uses[level][n] > 0})
    ELSE 0

\* sum of the uses variables filed under one size, restricted to some names
uses_of(jewel_uses, level, names) ==
    IF level \in DOMAIN jewel_uses
    THEN SumOver({n \in DOMAIN jewel_uses[level] : n \in names}, jewel_uses[level])
    ELSE 0

\* the inequalities without the size-3 uses taken off the size-2 capacity
_add_jewel_usage_constraints_no_carry(cat, jewel_uses, group_name, emplacement_sums) ==
    LET jewel_names == {x.jewel_name :
                          x \in {y \in jewel_types(cat) : y.group = group_name}}
        u(level) == uses_of(jewel_uses, level, jewel_names)
    IN  /\ u(3) <= emplacement_sums[3]
        /\ u(2) <= emplacement_sums[2] + emplacement_sums[3]
        /\ u(1) <= emplacement_sums[1] + emplacement_sums[2]
                     + emplacement_sums[3] - u(3) - u(2)

\* the three inequalities added for one group of jewels and one slot ledger
_add_jewel_usage_constraints(cat, jewel_uses, group_name, emplacement_sums) ==
    LET jewel_names == {x.jewel_name :
                          x \in {y \in jewel_types(cat) : y.group = group_name}}
        u(level) == uses_of(jewel_uses, level, jewel_names)
    IN  /\ u(3) <= emplacement_sums[3]
        /\ u(2) <= emplacement_sums[2] + emplacement_sums[3] - u(3)
        /\ u(1) <= emplacement_sums[1] + emplacement_sums[2]
                     + emplacement_sums[3] - u(3) - u(2)

\* the two calls made against one ledger pooling armor and weapon slots
jewel_usage_calls_pooled(cat, jewel_uses, total_armor, total_weapon) ==
    LET pooled == [i \in 1..3 |-> total_armor[i] + total_weapon[i]]
    IN  /\ _add_jewel_usage_constraints(cat, jewel_uses, "Equip", pooled)
        /\ _add_jewel_usage_constraints(cat, jewel_uses, "Weapon", pooled)

\* the two calls of solve: Equip jewels on the armor ledger, Weapon jewels
\* on the weapon ledger
jewel_usage_calls(cat, jewel_uses, total_armor, total_weapon) ==
    /\ _add_jewel_usage_constraints(cat, jewel_uses, "Equip", total_armor)
    /\ _add_jewel_usage_constraints(cat, jewel_uses, "Weapon", total_weapon)

\* the keys of _vars.talent_lists: the talents with at least one variable
talent_lists_keys(cat, weapon_name) ==
    {r.talent_name : r \in cat.armor}
        \cup {r.talent_name : r \in cat.charms}
        \cup {r.talent_name : r \in weapon_talent_rows(cat, weapon_name)}
        \cup {r.talent_name : r \in all_jewels(cat)}

\* the sum where a jewel contributes its uses, the per-unit level left out
talent_lists_sum_per_use(cat, weapon_name, use_armor, use_charm, jewel_uses, talent_name) ==
    LET arows == {r \in cat.armor : r.talent_name = talent_name}
        crows == {r \in cat.charms : r.talent_name = talent_name}
        wrows == {r \in weapon_talent_rows(cat, weapon_name) :
                    r.talent_name = talent_name}
        jrows == {r \in all_jewels(cat) : r.talent_name = talent_name}
    IN  SumOver(arows, [r \in arows |->
                    CHOOSE v \in var_talent_lvl(r, use_armor) : TRUE])
        + SumOver(crows, [r \in crows |->
                    IF use_charm[r.name] THEN r.talent_lvl ELSE 0])
        + SumOver(wrows, [r \in wrows |-> r.talent_lvl])
        + SumOver(jrows, [r \in jrows |-> jewel_uses[r.jewel_lvl][r.jewel_name]])

\* sum(talent_vars) for one talent: the values of the variables appended to
\* talent_lists[talent_name] by the armor, charm, weapon and jewel phases
talent_lists_sum(cat, weapon_name, use_armor, use_charm, jewel_uses, talent_name) ==
    LET arows == {r \in cat.armor : r.talent_name = talent_name}
        crows == {r \in cat.charms : r.talent_name = talent_name}
        wrows == {r \in weapon_talent_rows(cat, weapon_name) :
                    r.talent_name = talent_name}
        jrows == {r \in all_jewels(cat) : r.talent_name = talent_name}
    IN  SumOver(arows, [r \in arows |->
                    CHOOSE v \in var_talent_lvl(r, use_armor) : TRUE])
        + SumOver(crows, [r \in crows |->
                    IF use_charm[r.name] THEN r.talent_lvl ELSE 0])
        + SumOver(wrows, [r \in wrows |-> r.talent_lvl])
        + SumOver(jrows, [r \in jrows |->
                    jewel_uses[r.jewel_lvl][r.jewel_name] * r.talent_lvl])

\* talent_sums[talent_name] with the upper bound of total_talent (100)
_compute_talent_sums_wide(cat, weapon_name, use_armor, use_charm, jewel_uses) ==
    FunsIn([t \in talent_lists_keys(cat, weapon_name) |->
        {v \in 0..UsesUb :
            v = talent_lists_sum(cat, weapon_name, use_armor, use_charm,
                                 jewel_uses, t)}])

\* talent_sums[talent_name]: in 0..30 and == sum(talent_vars)
_compute_talent_sums(cat, weapon_name, use_armor, use_charm, jewel_uses) ==
    FunsIn([t \in talent_lists_keys(cat, weapon_name) |->
        {v \in 0..TalentUb :
            v = talent_lists_sum(cat, weapon_name, use_armor, use_charm,
                                 jewel_uses, t)}])

\* the capped variable set equal to the sum, the maximum level left out
min_equality_uncapped(cat, sum, talent_name) ==
    {c \in 0..TalentUb : c = sum}

\* AddMinEquality(target, [talent_sum, max level]) on one talent
min_equality(cat, sum, talent_name) ==
    {c \in 0..TalentUb : c = Min(sum, talents_lvl_max(cat, talent_name))}

\* talent_sums_capped[talent_name]
_add_talent_sum_cap(cat, sums) ==
    FunsIn([t \in DOMAIN sums |-> min_equality(cat, sums[t], t)])

\* data["talent_lvl"]: the first level of the exploded group talent
group_required_level(cat, group_talent_name) ==
    (CHOOSE t \in cat.talents : t.name = group_talent_name).levels[1]

\* the indicator with the two enforcement literals exchanged
group_has_enough_levels_inverted(capped, required) ==
    {b \in BOOLEAN : /\ ~b => capped >= required
                     /\ b => capped < required}

\* the values of group_has_enough_levels admitted for one group talent
group_has_enough_levels(capped, required) ==
    {b \in BOOLEAN : /\ b => capped >= required
                     /\ ~b => capped < required}

\* group_has_enough_level[group_talent_name]
_set_group_talent_minimum_required_levels(cat, capped) ==
    FunsIn([g \in group_talent_names(cat) |->
        group_has_enough_levels(capped[g], group_required_level(cat, g))])

\* .sort("talent_lvl") of a list of levels
RECURSIVE sort_levels(_)
sort_levels(s) ==
    IF s = <<>> THEN <<>>
    ELSE LET i == CHOOSE k \in DOMAIN s : \A j \in DOMAIN s : s[k] <= s[j]
         IN  <<s[i]>> \o sort_levels(SubSeq(s, 1, i - 1) \o SubSeq(s, i + 1, Len(s)))

\* levels = [0] + sorted thresholds + [30]
series_levels(cat, talent_series_name) ==
    <<0>> \o sort_levels((CHOOSE t \in cat.talents :
                            t.name = talent_series_name).levels)
          \o <<TalentUb>>

\* the interval variable taking the upper bound of its interval
series_interval_upper(capped, talent_inferior, talent_superior) ==
    {x \in [between : BOOLEAN, var : 0..TalentUb] :
        \E more, less \in BOOLEAN :
            /\ more => talent_inferior <= capped
            /\ ~more => talent_inferior > capped
            /\ less => talent_superior > capped
            /\ ~less => talent_superior <= capped
            /\ x.between => Bool(more) + Bool(less) = 2
            /\ ~x.between => Bool(more) + Bool(less) < 2
            /\ x.between => x.var = talent_superior
            /\ ~x.between => x.var = 0}

\* the (between, var) pairs admitted for one interval [inferior, superior)
series_interval(capped, talent_inferior, talent_superior) ==
    {x \in [between : BOOLEAN, var : 0..TalentUb] :
        \E more, less \in BOOLEAN :
            /\ more => talent_inferior <= capped
            /\ ~more => talent_inferior > capped
            /\ less => talent_superior > capped
            /\ ~less => talent_superior <= capped
            /\ x.between => Bool(more) + Bool(less) = 2
            /\ ~x.between => Bool(more) + Bool(less) < 2
            /\ x.between => x.var = talent_inferior
            /\ ~x.between => x.var = 0}

\* talent_series_interval[talent_series_name], one entry per pair of levels
_set_series_talent_minimum_required_levels(cat, capped) ==
    FunsIn([n \in talent_series_names(cat) |->
        LET levels == series_levels(cat, n)
        IN  FunsIn([i \in 1..(Len(levels) - 1) |->
                series_interval(capped[n], levels[i], levels[i + 1])])])

\* the final level of a group talent taken from the capped level alone
final_of_group_ungated(capped, enough) ==
    {f \in 0..TalentUb : f = capped}

\* the value of talent_sums_final admitted for a group talent
final_of_group(capped, enough) ==
    {f \in 0..TalentUb : /\ enough => f = capped
                         /\ ~enough => f = 0}

\* talent_sums_final[name]
_aggregate_all_talents(cat, capped, enough, intervals) ==
    FunsIn([name \in (DOMAIN capped \ talent_series_names(cat))
                        \cup DOMAIN intervals |->
        IF name \in DOMAIN intervals
        THEN {f \in 0..TalentUb :
                f = SumSeq([i \in DOMAIN intervals[name] |-> intervals[name][i].var])}
        ELSE IF name \in group_talent_names(cat)
        THEN final_of_group(capped[name], enough[name])
        ELSE {f \in 0..TalentUb : f = capped[name]}])

----------------------------------------------------------------------------
(* The objective                                                           *)

\* the dictionary of weights keeping the first entry of each talent
wanted_talents_first(talent_list) ==
    [n \in {talent_list[i].name : i \in DOMAIN talent_list} |->
        LET first == CHOOSE i \in DOMAIN talent_list :
                        /\ talent_list[i].name = n
                        /\ \A j \in DOMAIN talent_list :
                              talent_list[j].name = n => i <= j
        IN  talent_list[first].weight]

\* {item["name"]: item["weight"] for item in talent_list}: the last entry wins
wanted_talents(talent_list) ==
    [n \in {talent_list[i].name : i \in DOMAIN talent_list} |->
        LET last == CHOOSE i \in DOMAIN talent_list :
                        /\ talent_list[i].name = n
                        /\ \A j \in DOMAIN talent_list :
                              talent_list[j].name = n => j <= i
        IN  talent_list[last].weight]

\* {item["name"]: item["target_level"] for item in talent_list}
wanted_talents_objective(talent_list) ==
    [n \in {talent_list[i].name : i \in DOMAIN talent_list} |->
        LET last == CHOOSE i \in DOMAIN talent_list :
                        /\ talent_list[i].name = n
                        /\ \A j \in DOMAIN talent_list :
                              talent_list[j].name = n => j <= i
        IN  talent_list[last].target_level]

\* sum(maximize_nb_of_free_jewels): for lvl in 1..3,
\* (sum of jewel_emplacement_sums[gear_type][lvl] - sum of all uses of size lvl) * 10**lvl
maximize_nb_of_free_jewels(emplacement_sums, jewel_uses) ==
    LET lvl_emplacements(lvl) ==
            SumOver(DOMAIN emplacement_sums,
                    [g \in DOMAIN emplacement_sums |-> emplacement_sums[g][lvl]])
        used(lvl) == IF lvl \in DOMAIN jewel_uses
                     THEN SumOver(DOMAIN jewel_uses[lvl], jewel_uses[lvl])
                     ELSE 0
    IN  SumOver(1..3, [lvl \in 1..3 |->
                    (lvl_emplacements(lvl) - used(lvl)) * Pow10(lvl)])

\* the talent count entering the objective with the weight of a free slot
nb_of_talents_scaled(final) == SumOver(DOMAIN final, final) * 10000

\* sum(_vars.talent_sums_final.values())
nb_of_talents(final) == SumOver(DOMAIN final, final)

\* the achievement term entering the objective with the opposite sign
talent_objective_negated(final, wanted) ==
    SumOver(DOMAIN wanted, [t \in DOMAIN wanted |-> 0 - final[t] * Pow10(wanted[t])])

\* sum(final[talent] * 10**weight for talent, weight in wanted_talents.items())
talent_objective(final, wanted) ==
    SumOver(DOMAIN wanted, [t \in DOMAIN wanted |-> final[t] * Pow10(wanted[t])])

\* the wish-list talents that get an abs_diff variable
abs_diff_names(final, wanted_objective) ==
    {n \in DOMAIN final : n \in DOMAIN wanted_objective /\ wanted_objective[n] # -1}

\* AddAbsEquality(abs_diff, talent_var - objective_lvl), abs_diff in 0..100
abs_diff_vars(final, wanted_objective) ==
    FunsIn([n \in abs_diff_names(final, wanted_objective) |->
        {d \in 0..AbsDiffUb : d = Abs(final[n] - wanted_objective[n])}])

\* sum(abs_diff * 10 ** wanted_talents[talent_name])
abs_diff_sum(abs_diff, wanted) ==
    SumOver(DOMAIN abs_diff, [n \in DOMAIN abs_diff |-> abs_diff[n] * Pow10(wanted[n])])

\* the maximised expression without the abs_diff term
_create_objective_function_no_penalty(a, abs_diff, wanted) ==
    [hi |-> talent_objective(a.talent_sums_final, wanted),
     lo |-> maximize_nb_of_free_jewels(a.jewel_emplacement_sums,
                                       a.jewel_uses_integers) * FreeScale
              + nb_of_talents(a.talent_sums_final)]

\* The maximised expression is
\*   talent_objective * 10**9 - sum(abs_diff_vars) * 10**9
\*     + sum(maximize_nb_of_free_jewels) * 10**3 + nb_of_talents.
\* It is kept as the pair (hi, lo) standing for hi * 10**9 + lo, the two
\* wish terms in hi and the two lower terms in lo.
_create_objective_function(a, abs_diff, wanted) ==
    [hi |-> talent_objective(a.talent_sums_final, wanted)
              - abs_diff_sum(abs_diff, wanted),
     lo |-> maximize_nb_of_free_jewels(a.jewel_emplacement_sums,
                                       a.jewel_uses_integers) * FreeScale
              + nb_of_talents(a.talent_sums_final)]

\* x.hi * 10**9 + x.lo < y.hi * 10**9 + y.lo, without leaving 32 bits
ObjLess(x, y) ==
    LET h == y.hi - x.hi
        d == x.lo - y.lo
    IN  IF h >= 3 THEN TRUE
        ELSE IF h <= -3 THEN FALSE
        ELSE d < h * WishScale

----------------------------------------------------------------------------
(* Assignments of the model                                                *)

\* the decision variables with nothing equipped and no jewel used
EmptyDecision(cat) ==
    [use_armor_piece_booleans |->
        [g \in Range(gear_types(cat)) |->
            [n \in Range(unique_armor_pieces_names(cat, g)) |-> FALSE]],
     use_charm_booleans |-> [n \in Range(unique_charm_name(cat)) |-> FALSE],
     jewel_uses_integers |->
        [l \in jewel_lvls(cat) |->
            [n \in {r.jewel_name : r \in {x \in all_jewels(cat) :
                                            jewel_lvl_of(cat, x.jewel_name) = l}}
                |-> 0]]]

\* the names filed under one jewel size
jewel_names_of_lvl(cat, l) ==
    {r.jewel_name : r \in {x \in all_jewels(cat) : jewel_lvl_of(cat, x.jewel_name) = l}}

\* Every assignment of the variables of OptimizationVariables that
\* satisfies the constraints solve adds to the model, the uses variables
\* explored up to MaxUses.  Each stage gives the variables of one phase of
\* solve every value their constraints admit.
Feasible(cat, weapon_name) ==
    LET gears == Range(gear_types(cat))
        S0 == IF _set_weapon_talents(cat, weapon_name)
              THEN {[use_armor_piece_booleans |-> v] :
                     v \in {ua \in FunsIn([g \in gears |->
                                [Range(unique_armor_pieces_names(cat, g))
                                    -> BOOLEAN]]) :
                             \A g \in gears : _process_armor_pieces(cat, ua, g)}}
              ELSE {}
        S1 == UNION {{p @@ [jewel_emplacement_sums |-> v] :
                        v \in FunsIn([g \in gears |->
                                _create_jewel_slots_for_armor_pieces(
                                    cat, p.use_armor_piece_booleans, g)])}
                     : p \in S0}
        S2 == UNION {{p @@ [jewel_emplacement_sums_total_armor |-> v] :
                        v \in _calculate_total_armor_jewel_emplacements(
                                    cat, p.jewel_emplacement_sums)}
                     : p \in S1}
        S3 == UNION {{p @@ [jewel_emplacement_sums_total_weapon |-> v] :
                        v \in _create_weapon_jewel_slots(cat, weapon_name)}
                     : p \in S2}
        JU == {ju \in FunsIn([l \in jewel_lvls(cat) |->
                        [jewel_names_of_lvl(cat, l) -> 0..Min(UsesUb, MaxUses)]]) :
                 \A n \in Range(unique_jewels_names(cat)) :
                    _register_jewel_usage(cat, ju, n)}
        S4 == UNION {{p @@ [jewel_uses_integers |-> v] :
                        v \in {ju \in JU :
                                jewel_usage_calls(cat, ju,
                                    p.jewel_emplacement_sums_total_armor,
                                    p.jewel_emplacement_sums_total_weapon)}}
                     : p \in S3}
        UC == {uc \in [Range(unique_charm_name(cat)) -> BOOLEAN] :
                 _process_charms(cat, uc)}
        S5 == {p @@ [use_charm_booleans |-> v] : p \in S4, v \in UC}
        S6 == UNION {{p @@ [talent_sums |-> v] :
                        v \in _compute_talent_sums(cat, weapon_name,
                                    p.use_armor_piece_booleans,
                                    p.use_charm_booleans,
                                    p.jewel_uses_integers)}
                     : p \in S5}
        S7 == UNION {{p @@ [talent_sums_capped |-> v] :
                        v \in _add_talent_sum_cap(cat, p.talent_sums)}
                     : p \in S6}
        S8 == UNION {{p @@ [group_has_enough_level |-> v] :
                        v \in _set_group_talent_minimum_required_levels(
                                    cat, p.talent_sums_capped)}
                     : p \in S7}
        S9 == UNION {{p @@ [talent_series_interval |-> v] :
                        v \in _set_series_talent_minimum_required_levels(
                                    cat, p.talent_sums_capped)}
                     : p \in S8}
    IN  UNION {{p @@ [talent_sums_final |-> v] :
                    v \in _aggregate_all_talents(cat, p.talent_sums_capped,
                                p.group_has_enough_level,
                                p.talent_series_interval)}
               : p \in S9}

\* the decisions one step of the search away: one indicator flipped or one
\* uses variable moved by one
Neighbours(d) ==
    UNION {{[d EXCEPT !.use_armor_piece_booleans[g][n] = ~@] :
                n \in DOMAIN d.use_armor_piece_booleans[g]}
           : g \in DOMAIN d.use_armor_piece_booleans}
    \cup {[d EXCEPT !.use_charm_booleans[n] = ~@] :
            n \in DOMAIN d.use_charm_booleans}
    \cup UNION {UNION {{[d EXCEPT !.jewel_uses_integers[l][n] = @ + k] :
                            k \in {x \in {-1, 1} :
                                    d.jewel_uses_integers[l][n] + x
                                        \in 0..Min(UsesUb, MaxUses)}}
                       : n \in DOMAIN d.jewel_uses_integers[l]}
                : l \in DOMAIN d.jewel_uses_integers}

\* the decision part of an assignment
DecisionOf(a) ==
    [use_armor_piece_booleans |-> a.use_armor_piece_booleans,
     use_charm_booleans |-> a.use_charm_booleans,
     jewel_uses_integers |-> a.jewel_uses_integers]

----------------------------------------------------------------------------
(* The requests offered to solve                                           *)

Wish(n, w, t) == [name |-> n, weight |-> w, target_level |-> t]

TalentLists ==
    {<<>>,
     <<Wish("Atk", 1, -1)>>,
     <<Wish("Atk", MaxWeight, 2)>>,
     <<Wish("Set", 1, -1)>>,
     <<Wish("Atk", 1, 2), Wish("Pack", MaxWeight, -1)>>,
     <<Wish("Edge", 1, -1), Wish("Set", 1, 2)>>,
     <<Wish("Gem", 1, -1)>>,
     <<Wish("Gem", 1, 2)>>,
     <<Wish("Gem", MaxWeight, 2)>>,
     <<Wish("Atk", 9, -1)>>,
     <<Wish("Atk", MaxWeight, 2), Wish("Atk", 1, -1)>>}

WeaponNames == {"Blade", "Lance"}

\* Model construction raises no lookup error: the weapon is in the catalog,
\* every talent with a variable has a row in talents (_add_talent_sum_cap),
\* every Group and Series talent has a capped sum, and every wished talent
\* has a final level (_create_objective_function).
Constructs(cat, weapon_name, talent_list) ==
    /\ weapon(cat, weapon_name) # {}
    /\ \A t \in talent_lists_keys(cat, weapon_name) :
          \E x \in cat.talents : x.name = t
    /\ group_talent_names(cat) \cup talent_series_names(cat)
          \subseteq talent_lists_keys(cat, weapon_name)
    /\ \A i \in DOMAIN talent_list :
          talent_list[i].name \in talent_lists_keys(cat, weapon_name)

\* The lookup that fails first when the model cannot be constructed: the
\* function it fails in, the exception and the missing key.
Raises(cat, weapon_name, talent_list) ==
    LET keys == talent_lists_keys(cat, weapon_name)
        rowless == {t \in keys : \A x \in cat.talents : x.name # t}
        sumless == (group_talent_names(cat) \cup talent_series_names(cat)) \ keys
        unknown == {i \in DOMAIN talent_list : talent_list[i].name \notin keys}
    IN  IF weapon(cat, weapon_name) = {}
        THEN [in |-> "_create_weapon_jewel_slots", error |-> "IndexError",
              key |-> weapon_name]
        ELSE IF rowless # {}
        THEN [in |-> "_add_talent_sum_cap", error |-> "IndexError",
              key |-> CHOOSE t \in rowless : TRUE]
        ELSE IF sumless # {}
        THEN [in |-> IF sumless \cap group_talent_names(cat) # {}
                     THEN "_set_group_talent_minimum_required_levels"
                     ELSE "_set_series_talent_minimum_required_levels",
              error |-> "KeyError",
              key |-> IF sumless \cap group_talent_names(cat) # {}
                      THEN CHOOSE t \in sumless \cap group_talent_names(cat) : TRUE
                      ELSE CHOOSE t \in sumless : TRUE]
        ELSE [in |-> "_create_objective_function", error |-> "KeyError",
              key |-> talent_list[CHOOSE i \in unknown :
                                    \A j \in unknown : i <= j].name]

\* The maximised expression can leave 64 bits: the backend validates the
\* model before searching and answers MODEL_INVALID.  The wish terms are
\* bounded by (30 + 100) * 10**weight * 10**9 and 2**63 - 1 is
\* 9223372036854775807; the comparison is made in units of 10**16.
ObjectiveOverflows(talent_list) ==
    LET big == {i \in DOMAIN talent_list : talent_list[i].weight >= 7}
    IN  SumOver(big, [i \in big |->
            (TalentUb + (IF talent_list[i].target_level # -1
                         THEN AbsDiffUb ELSE 0))
                * Pow10(talent_list[i].weight - 7)]) > 922

\* The model handed to the backend: every feasible assignment, with the
\* values of the abs_diff variables and of the maximised expression.
CpModel(cat, weapon_name, tl) ==
    UNION {{[_vars |-> a, abs_diff |-> ad,
             objective |-> _create_objective_function(a, ad, wanted_talents(tl))] :
                ad \in abs_diff_vars(a.talent_sums_final,
                                     wanted_talents_objective(tl))}
           : a \in Feasible(cat, weapon_name)}

----------------------------------------------------------------------------
(* State                                                                   *)

VARIABLES
    armor, charms, jewels, talents, weapons,  \* the tables loaded at import
    pc,            \* where the call of solve stands
    weapon_dict,   \* argument of solve: the name of the weapon
    talent_list,   \* argument of solve: the wish-list
    model,         \* the CpModel, as the set of its feasible assignments
    _vars,         \* the values the backend holds for OptimizationVariables
    abs_diff,      \* the values of the abs_diff variables
    objective,     \* the value of the maximised expression, as (hi, lo)
    status,        \* the status returned by solver.solve
    solution,      \* the dictionary returned by solve
    raised,        \* the exception that ended the call, if one did
    scrap_pc,        \* where the call of parallel_scrap stands
    chunk_iterator,  \* argument of parallel_scrap: the elements to process
    max_concurrent,  \* argument of parallel_scrap
    semaphore,       \* asyncio.Semaphore: its counter and its queue of waiters
    tasks,           \* where each process_item coroutine stands
    fn_calls,        \* how many times fn was invoked for each task
    completed,       \* the finished tasks as_completed has not yielded yet
    all_data,        \* the list parallel_scrap fills and returns
    emplacement_sums,  \* one pool: its slot counts per size
    jewel_uses,        \* one pool: the uses of its jewels per size
    admitted,          \* whether the inequalities of the pool admit them:
                       \* "pending", "yes" or "no"
    use_armor_piece_booleans,  \* a selection of armor pieces
    gear_type,                 \* the armor slot whose capacity is computed
    sums_modular,   \* jewel_emplacement_sums[gear_type] of MH_Wilds_tools/solver.py
    sums_legacy,    \* jewel_emplacement_sums[gear_type] of src/solver.py
    markdown,       \* what each function of display.py made of the solution
    cli_pc,         \* where the main loop of the CLI stands
    command,        \* the line read at the prompt, stripped and lowered
    printed,        \* the last message printed
    cli_raised      \* the exception that left main, if one did

\* the variables of solve and of the catalog
solve_vars == <<armor, charms, jewels, talents, weapons, pc, weapon_dict,
                talent_list, model, _vars, abs_diff, objective, status,
                solution, raised>>

\* the variables of parallel_scrap
scrap_vars == <<scrap_pc, chunk_iterator, max_concurrent, semaphore, tasks,
                fn_calls, completed, all_data>>

\* the variables of one call of _add_jewel_usage_constraints
pool_vars == <<emplacement_sums, jewel_uses, admitted>>

\* the variables of the CLI
cli_vars == <<cli_pc, command, printed, cli_raised>>

\* the variables of the two versions of _create_jewel_slots_for_armor_pieces
slots_vars == <<use_armor_piece_booleans, gear_type, sums_modular, sums_legacy>>

\* what a step of solve leaves alone
beyond_solve == <<scrap_vars, pool_vars, slots_vars, cli_vars>>

\* what a step of parallel_scrap leaves alone
beyond_scrap == <<solve_vars, pool_vars, slots_vars, markdown, cli_vars>>

\* what a call of _add_jewel_usage_constraints leaves alone
beyond_pool == <<solve_vars, scrap_vars, slots_vars, markdown, cli_vars>>

\* what a call of _create_jewel_slots_for_armor_pieces leaves alone
beyond_slots == <<solve_vars, scrap_vars, pool_vars, markdown, cli_vars>>

\* what a step of the CLI leaves alone
beyond_cli == <<solve_vars, scrap_vars, pool_vars, slots_vars, markdown>>

vars == <<solve_vars, scrap_vars, pool_vars, slots_vars, markdown, cli_vars>>

catalog == [armor |-> armor, charms |-> charms, jewels |-> jewels,
            talents |-> talents, weapons |-> weapons]

Unset == <<>>

\* the CLI is not running
NoCli ==
    /\ cli_pc = "off"
    /\ command = Unset
    /\ printed = "none"
    /\ cli_raised = Unset

\* no function of display.py has been given the solution
NotRendered ==
    [generate_markdown_from_solution |-> Unset,
     generate_markdown_for_jewels |-> Unset]

\* no selection of armor pieces is under consideration
NoSlots ==
    /\ use_armor_piece_booleans = Unset
    /\ gear_type = "null"
    /\ sums_modular = Unset
    /\ sums_legacy = Unset

\* no pool is under consideration
NoPool ==
    /\ emplacement_sums = Unset
    /\ jewel_uses = Unset
    /\ admitted = "pending"

\* no call of parallel_scrap is in progress
NoScrap ==
    /\ scrap_pc = "idle"
    /\ chunk_iterator = <<>>
    /\ max_concurrent = 0
    /\ semaphore = Unset
    /\ tasks = <<>>
    /\ fn_calls = <<>>
    /\ completed = <<>>
    /\ all_data = <<>>

Init ==
    /\ \E cat \in Catalogs :
          /\ armor = cat.armor
          /\ charms = cat.charms
          /\ jewels = cat.jewels
          /\ talents = cat.talents
          /\ weapons = cat.weapons
    /\ pc = "idle"
    /\ weapon_dict = Unset
    /\ talent_list = <<>>
    /\ model = {}
    /\ _vars = Unset
    /\ abs_diff = Unset
    /\ objective = Unset
    /\ status = "NONE"
    /\ solution = Unset
    /\ raised = Unset
    /\ NoScrap
    /\ NoPool
    /\ NoSlots
    /\ markdown = NotRendered
    /\ NoCli

\* the backend holds the assignment m of the model
Holds(m) ==
    /\ _vars' = m._vars
    /\ abs_diff' = m.abs_diff
    /\ objective' = m.objective

\* solve, lines 808-969: the request is read and the model is constructed
solve_construct(name, tl) ==
    /\ pc = "idle"
    /\ Constructs(catalog, name, tl)
    /\ ~ObjectiveOverflows(tl)
    /\ pc' = "constructed"
    /\ weapon_dict' = [name |-> name]
    /\ talent_list' = tl
    /\ model' = CpModel(catalog, name, tl)
    /\ UNCHANGED <<armor, charms, jewels, talents, weapons, _vars, abs_diff,
                   objective, status, solution, raised>>
    /\ UNCHANGED beyond_solve
    /\ UNCHANGED markdown

\* solve, lines 808-969: a lookup fails while the model is constructed and
\* the exception leaves solve
solve_raise(name, tl) ==
    /\ pc = "idle"
    /\ ~Constructs(catalog, name, tl)
    /\ pc' = "raised"
    /\ weapon_dict' = [name |-> name]
    /\ talent_list' = tl
    /\ raised' = Raises(catalog, name, tl)
    /\ UNCHANGED <<armor, charms, jewels, talents, weapons, model, _vars,
                   abs_diff, objective, status, solution>>
    /\ UNCHANGED beyond_solve
    /\ UNCHANGED markdown

\* solve, lines 808-986: the model is constructed, the backend answers
\* MODEL_INVALID without an assignment, no test of the status is made and
\* the first solver.value of the read-back fails
solve_invalid(name, tl) ==
    /\ pc = "idle"
    /\ Constructs(catalog, name, tl)
    /\ ObjectiveOverflows(tl)
    /\ pc' = "raised"
    /\ weapon_dict' = [name |-> name]
    /\ talent_list' = tl
    /\ status' = "MODEL_INVALID"
    /\ raised' = [in |-> "solve", error |-> "IndexError", key |-> "solver.value"]
    /\ UNCHANGED <<armor, charms, jewels, talents, weapons, model, _vars,
                   abs_diff, objective, solution>>
    /\ UNCHANGED beyond_solve
    /\ UNCHANGED markdown

\* solver.solve: the search starts on the assignment with nothing equipped
solver_start ==
    /\ pc = "constructed"
    /\ \E m \in model :
          /\ DecisionOf(m._vars) = EmptyDecision(catalog)
          /\ Holds(m)
    /\ pc' = "searching"
    /\ UNCHANGED <<armor, charms, jewels, talents, weapons, weapon_dict,
                   talent_list, model, status, solution, raised>>
    /\ UNCHANGED beyond_solve
    /\ UNCHANGED markdown

\* solver.solve: the search moves to a neighbouring feasible assignment
solver_search ==
    /\ pc = "searching"
    /\ LET near == Neighbours(DecisionOf(_vars))
       IN  \E m \in model :
              /\ DecisionOf(m._vars) \in near
              /\ Holds(m)
    /\ pc' = "searching"
    /\ UNCHANGED <<armor, charms, jewels, talents, weapons, weapon_dict,
                   talent_list, model, status, solution, raised>>
    /\ UNCHANGED beyond_solve
    /\ UNCHANGED markdown

\* no assignment of the model has a greater objective than the one held
IsOptimal == \A m \in model : ~ObjLess(objective, m.objective)

\* the last name of the sorted list whose indicator is 1
last_equipped(names, booleans) ==
    names[CHOOSE i \in DOMAIN names :
            /\ booleans[names[i]]
            /\ \A j \in DOMAIN names : booleans[names[j]] => j <= i]

\* the read-back keeping every jewel, used or not
extract_every_jewel(cat, name, a) ==
    [jewels |->
        [j \in {n \in Range(unique_jewels_names(cat)) :
                  a.jewel_uses_integers[jewel_lvl_of(cat, n)][n] >= 0} |->
            a.jewel_uses_integers[jewel_lvl_of(cat, j)][j]],
     weapon |-> (CHOOSE r \in weapon(cat, name) : TRUE).name]
    @@ [g \in {x \in DOMAIN a.use_armor_piece_booleans :
                 \E n \in DOMAIN a.use_armor_piece_booleans[x] :
                    a.use_armor_piece_booleans[x][n]} |->
            last_equipped(unique_armor_pieces_names(cat, g),
                          a.use_armor_piece_booleans[g])]
    @@ [c \in {x \in {"charm"} :
                 \E n \in DOMAIN a.use_charm_booleans : a.use_charm_booleans[n]} |->
            last_equipped(unique_charm_name(cat), a.use_charm_booleans)]

\* solve, lines 983-997: the values are read back into the dictionary
extract(cat, name, a) ==
    [jewels |->
        [j \in {n \in Range(unique_jewels_names(cat)) :
                  a.jewel_uses_integers[jewel_lvl_of(cat, n)][n] > 0} |->
            a.jewel_uses_integers[jewel_lvl_of(cat, j)][j]],
     weapon |-> (CHOOSE r \in weapon(cat, name) : TRUE).name]
    @@ [g \in {x \in DOMAIN a.use_armor_piece_booleans :
                 \E n \in DOMAIN a.use_armor_piece_booleans[x] :
                    a.use_armor_piece_booleans[x][n]} |->
            last_equipped(unique_armor_pieces_names(cat, g),
                          a.use_armor_piece_booleans[g])]
    @@ [c \in {x \in {"charm"} :
                 \E n \in DOMAIN a.use_charm_booleans : a.use_charm_booleans[n]} |->
            last_equipped(unique_charm_name(cat), a.use_charm_booleans)]

\* the read-back keeping the jewels only under the status OPTIMAL
solve_return_by_status ==
    /\ pc = "searching"
    /\ pc' = "returned"
    /\ status' \in {"FEASIBLE"} \cup (IF IsOptimal THEN {"OPTIMAL"} ELSE {})
    /\ solution' = IF status' = "OPTIMAL"
                   THEN extract(catalog, weapon_dict.name, _vars)
                   ELSE extract(catalog, weapon_dict.name,
                                [_vars EXCEPT !.jewel_uses_integers =
                                    EmptyDecision(catalog).jewel_uses_integers])
    /\ UNCHANGED <<armor, charms, jewels, talents, weapons, weapon_dict,
                   talent_list, model, _vars, abs_diff, objective, raised>>
    /\ UNCHANGED beyond_solve
    /\ UNCHANGED markdown

\* solve, lines 971-997: the backend returns its status and the assignment
\* it holds is decoded
solve_return ==
    /\ pc = "searching"
    /\ pc' = "returned"
    /\ status' \in {"FEASIBLE"} \cup (IF IsOptimal THEN {"OPTIMAL"} ELSE {})
    /\ solution' = extract(catalog, weapon_dict.name, _vars)
    /\ UNCHANGED <<armor, charms, jewels, talents, weapons, weapon_dict,
                   talent_list, model, _vars, abs_diff, objective, raised>>
    /\ UNCHANGED beyond_solve
    /\ UNCHANGED markdown

\* the end of a call that leaves its model and OptimizationVariables behind
solve_exit_keeping ==
    /\ pc \in {"returned", "raised"}
    /\ pc' = "idle"
    /\ weapon_dict' = Unset
    /\ talent_list' = <<>>
    /\ abs_diff' = Unset
    /\ objective' = Unset
    /\ status' = "NONE"
    /\ solution' = Unset
    /\ raised' = Unset
    /\ UNCHANGED <<armor, charms, jewels, talents, weapons, model, _vars>>
    /\ UNCHANGED beyond_solve
    /\ markdown' = NotRendered

\* the call is over, by return or by exception; nothing of it is kept
\* (every call builds its own model and OptimizationVariables)
solve_exit ==
    /\ pc \in {"returned", "raised"}
    /\ pc' = "idle"
    /\ weapon_dict' = Unset
    /\ talent_list' = <<>>
    /\ model' = {}
    /\ _vars' = Unset
    /\ abs_diff' = Unset
    /\ objective' = Unset
    /\ status' = "NONE"
    /\ solution' = Unset
    /\ raised' = Unset
    /\ UNCHANGED <<armor, charms, jewels, talents, weapons>>
    /\ UNCHANGED beyond_solve
    /\ markdown' = NotRendered

\* display.py: the armor slots both functions read from the solution, the
\* two slots of the catalogs standing for the five of the game
armor_types == <<"Head", "Chest">>

\* the first key of the list that the dictionary lacks, as the KeyError of
\* solution[key]; no error when it has them all
read_keys(dict, keys) ==
    LET missing == {i \in DOMAIN keys : keys[i] \notin DOMAIN dict}
    IN  IF missing = {}
        THEN [error |-> "none", key |-> "none"]
        ELSE [error |-> "KeyError",
              key |-> keys[CHOOSE i \in missing : \A j \in missing : i <= j]]

\* display.py, lines 22-36: generate_markdown_from_solution reads
\* solution["jewels"], solution["weapon"], solution["charm"] and
\* solution[_type] for every armor slot
generate_markdown_from_solution ==
    /\ pc = "returned"
    /\ markdown.generate_markdown_from_solution = Unset
    /\ markdown' = [markdown EXCEPT !.generate_markdown_from_solution =
                        read_keys(solution,
                                  <<"jewels", "weapon", "charm">> \o armor_types)]
    /\ UNCHANGED solve_vars
    /\ UNCHANGED beyond_solve

\* display.py, lines 158-185: generate_markdown_for_jewels reads
\* solution["jewels"], solution["weapon"] and solution[_type] for every
\* armor slot
generate_markdown_for_jewels ==
    /\ pc = "returned"
    /\ markdown.generate_markdown_for_jewels = Unset
    /\ markdown' = [markdown EXCEPT !.generate_markdown_for_jewels =
                        read_keys(solution, <<"jewels", "weapon">> \o armor_types)]
    /\ UNCHANGED solve_vars
    /\ UNCHANGED beyond_solve

Next ==
    \/ \E name \in WeaponNames, tl \in TalentLists : solve_construct(name, tl)
    \/ \E name \in WeaponNames, tl \in TalentLists : solve_raise(name, tl)
    \/ \E name \in WeaponNames, tl \in TalentLists : solve_invalid(name, tl)
    \/ solver_start
    \/ solver_search
    \/ solve_return
    \/ generate_markdown_from_solution
    \/ generate_markdown_for_jewels
    \/ solve_exit

Spec == Init /\ [][Next]_vars

----------------------------------------------------------------------------
(* Properties                                                              *)

\* the backend holds an assignment
Assigned == pc \in {"searching", "returned"}

\* the pieces of one slot whose indicator is true
EquippedIn(g) ==
    {n \in DOMAIN _vars.use_armor_piece_booleans[g] :
        _vars.use_armor_piece_booleans[g][n]}

\* the charms whose indicator is true
EquippedCharms ==
    {n \in DOMAIN _vars.use_charm_booleans : _vars.use_charm_booleans[n]}

\* C1: in every Solution returned by solve, at most one equipped indicator
\* of each armor slot is true and the slot's entry is that piece, and at
\* most one charm indicator is true.
C1_SlotExclusivity ==
    pc = "returned" =>
        /\ \A g \in DOMAIN _vars.use_armor_piece_booleans :
              /\ Cardinality(EquippedIn(g)) <= 1
              /\ g \in DOMAIN solution => EquippedIn(g) = {solution[g]}
        /\ Cardinality(EquippedCharms) <= 1
        /\ "charm" \in DOMAIN solution => EquippedCharms = {solution["charm"]}

\* a Solution with a piece in both slots and a charm
C1_Witness ==
    /\ pc = "returned"
    /\ \A g \in DOMAIN _vars.use_armor_piece_booleans : g \in DOMAIN solution
    /\ "charm" \in DOMAIN solution

\* the size-K slots of the equipped pieces, read from the catalog
ArmorSlots(K) ==
    LET eq == {r \in [piece : DOMAIN _vars.use_armor_piece_booleans,
                      name : UNION {EquippedIn(g) :
                                g \in DOMAIN _vars.use_armor_piece_booleans}] :
                  r.name \in EquippedIn(r.piece)}
    IN  SumOver(eq, [r \in eq |-> jewel_levels(catalog, r.piece, r.name, K)])

\* the size-K slots of the fixed weapon, read from the catalog
WeaponSlots(K) ==
    LET w == CHOOSE x \in weapons : x.name = weapon_dict.name
    IN  w.jewels[K]

\* the jewels that grant a talent of the group
JewelsOfGroup(group) ==
    {j.name : j \in {x \in jewels :
        \E i \in DOMAIN x.jewel_talent_list : \E t \in talents :
            t.name = x.jewel_talent_list[i].name /\ t.group = group}}

\* the total uses of the jewels of one group and one size
Uses(group, K) ==
    LET js == {j \in jewels : j.name \in JewelsOfGroup(group) /\ j.jewel_lvl = K}
    IN  SumOver(js, [j \in js |-> _vars.jewel_uses_integers[j.jewel_lvl][j.name]])

\* the three inequalities of one pool
Fits(u1, u2, u3, s1, s2, s3) ==
    /\ u3 <= s3
    /\ u2 <= s2 + s3 - u3
    /\ u1 <= s1 + s2 + s3 - u3 - u2

\* C2: in every Solution the uses of the Equip-group jewels fit the slots
\* of the equipped armor pieces and the uses of the Weapon-group jewels fit
\* the slots of the weapon: u3 <= s3, u2 <= s2 + s3 - u3,
\* u1 <= s1 + s2 + s3 - u3 - u2.
C2_SlotCapacity ==
    pc = "returned" =>
        /\ Fits(Uses("Equip", 1), Uses("Equip", 2), Uses("Equip", 3),
                ArmorSlots(1), ArmorSlots(2), ArmorSlots(3))
        /\ Fits(Uses("Weapon", 1), Uses("Weapon", 2), Uses("Weapon", 3),
                WeaponSlots(1), WeaponSlots(2), WeaponSlots(3))

\* a Solution whose armor pool is full, a small jewel sitting in a larger slot
C2_Witness ==
    /\ pc = "returned"
    /\ Uses("Equip", 3) = 1
    /\ Uses("Equip", 1) + Uses("Equip", 2) = ArmorSlots(1) + ArmorSlots(2)
                                               + ArmorSlots(3) - 1
    /\ Uses("Equip", 1) > ArmorSlots(1)
    /\ Uses("Weapon", 1) = WeaponSlots(1) + WeaponSlots(2) + WeaponSlots(3)

\* the declared maximum level of a talent
DeclaredMax(t) ==
    LET row == CHOOSE x \in talents : x.name = t
    IN  CHOOSE m \in Range(row.levels) : \A l \in Range(row.levels) : l <= m

\* C3: in every feasible assignment the final effective level of every
\* talent is at most the talent's declared maximum level.
C3_TalentCap ==
    Assigned =>
        \A t \in DOMAIN _vars.talent_sums_final :
            _vars.talent_sums_final[t] <= DeclaredMax(t)

\* an assignment whose raw contributions to an Equip talent exceed its
\* maximum, the final level sitting at the maximum
C3_Witness ==
    /\ Assigned
    /\ \E t \in DOMAIN _vars.talent_sums_final :
          /\ _vars.talent_sums[t] > DeclaredMax(t)
          /\ _vars.talent_sums_final[t] = DeclaredMax(t)

\* the uses of the jewels of one group, all sizes together
TotalUses(group) == Uses(group, 1) + Uses(group, 2) + Uses(group, 3)

\* C4: the jewels granting an Equip talent are bounded by the slots of the
\* equipped armor alone and the jewels granting a Weapon talent by the slots
\* of the weapon alone; a free slot of one pool never admits a jewel of the
\* other group.
C4_PoolSeparation ==
    Assigned =>
        /\ TotalUses("Equip") <= ArmorSlots(1) + ArmorSlots(2) + ArmorSlots(3)
        /\ TotalUses("Weapon") <= WeaponSlots(1) + WeaponSlots(2) + WeaponSlots(3)

\* the armor pool is full of Equip jewels while a weapon slot stays free
C4_Witness ==
    /\ Assigned
    /\ TotalUses("Equip") = ArmorSlots(1) + ArmorSlots(2) + ArmorSlots(3)
    /\ TotalUses("Equip") > 0
    /\ TotalUses("Weapon") < WeaponSlots(1) + WeaponSlots(2) + WeaponSlots(3)

\* the required level of a group talent
RequiredLevel(g) == (CHOOSE x \in talents : x.name = g).levels[1]

\* C5: for every Group talent the has-enough indicator is true exactly when
\* the capped sum is at least the required level, and the final level is
\* the capped sum when the indicator is true and 0 when it is false.
C5_GroupAllOrNothing ==
    Assigned =>
        \A g \in DOMAIN _vars.group_has_enough_level :
            /\ _vars.group_has_enough_level[g]
                  <=> _vars.talent_sums_capped[g] >= RequiredLevel(g)
            /\ _vars.talent_sums_final[g] =
                  IF _vars.group_has_enough_level[g]
                  THEN _vars.talent_sums_capped[g] ELSE 0

\* a group talent held below its required level, its final level at 0
C5_Witness ==
    /\ Assigned
    /\ \E g \in DOMAIN _vars.group_has_enough_level :
          /\ _vars.talent_sums_capped[g] > 0
          /\ ~_vars.group_has_enough_level[g]
          /\ _vars.talent_sums_final[g] = 0

\* the declared thresholds of a series talent
Thresholds(t) == Range((CHOOSE x \in talents : x.name = t).levels)

\* the largest threshold not above the level, 0 under the smallest threshold
Tier(t, level) ==
    LET below == {l \in Thresholds(t) : l <= level}
    IN  IF below = {} THEN 0
        ELSE CHOOSE m \in below : \A l \in below : l <= m

\* C6: for every Series talent exactly one interval is selected and the
\* final level is the largest declared threshold not above the capped sum,
\* or 0 when the capped sum is under the smallest threshold.
C6_SeriesTier ==
    Assigned =>
        \A t \in DOMAIN _vars.talent_series_interval :
            /\ Cardinality({i \in DOMAIN _vars.talent_series_interval[t] :
                              _vars.talent_series_interval[t][i].between}) = 1
            /\ _vars.talent_sums_final[t] = Tier(t, _vars.talent_sums_capped[t])

\* a series talent strictly between two thresholds, rounded down to the lower
C6_Witness ==
    /\ Assigned
    /\ \E t \in DOMAIN _vars.talent_series_interval :
          /\ _vars.talent_sums_capped[t] > _vars.talent_sums_final[t]
          /\ _vars.talent_sums_final[t] > 0

\* C7: between two feasible assignments of one model, the second with a
\* larger raw sum for a talent, a true group indicator stays true and the
\* final level of a series talent does not decrease.
C7_Monotone ==
    [][(pc = "searching" /\ pc' = "searching") =>
          /\ \A g \in DOMAIN _vars.group_has_enough_level :
                (_vars'.talent_sums[g] > _vars.talent_sums[g]
                    /\ _vars.group_has_enough_level[g])
                  => _vars'.group_has_enough_level[g]
          /\ \A t \in DOMAIN _vars.talent_series_interval :
                _vars'.talent_sums[t] > _vars.talent_sums[t]
                  => _vars'.talent_sums_final[t] >= _vars.talent_sums_final[t]
      ]_vars

\* a group talent raised above its required level with its indicator true,
\* next to a series talent raised past its first threshold
C7_Witness ==
    /\ pc = "searching"
    /\ \E g \in DOMAIN _vars.group_has_enough_level :
          /\ _vars.talent_sums[g] > RequiredLevel(g)
          /\ _vars.group_has_enough_level[g]
    /\ \E t \in DOMAIN _vars.talent_series_interval :
          /\ _vars.talent_sums[t] > Tier(t, _vars.talent_sums[t])
          /\ _vars.talent_sums_final[t] > 0

\* the total over the wish items with a target of
\* |final level - target| * 10^weight, for one assignment of the model
Deviation(m) ==
    LET items == {i \in DOMAIN talent_list : talent_list[i].target_level # -1}
    IN  SumOver(items, [i \in items |->
            Abs(m._vars.talent_sums_final[talent_list[i].name]
                    - talent_list[i].target_level)
                * Pow10(talent_list[i].weight)])

\* C8: of any two feasible assignments of one model, the one with the
\* strictly smaller total target deviation has the strictly greater
\* objective value, whatever the weighted achievement of either.
C8_DeviationOutranks ==
    pc = "constructed" =>
        \A m1 \in model : \A m2 \in model :
            Deviation(m1) < Deviation(m2) => ObjLess(m2.objective, m1.objective)

\* the occupied slots per size of one pool under some placement of u1, u2,
\* u3 jewels of sizes 1, 2, 3 in slots at least as large
Placements(u1, u2, u3, s1, s2, s3) ==
    {occ \in [1..3 -> 0..(s1 + s2 + s3)] :
        /\ occ[1] <= s1 /\ occ[2] <= s2 /\ occ[3] <= s3
        /\ occ[1] + occ[2] + occ[3] = u1 + u2 + u3
        /\ occ[3] >= u3
        /\ occ[2] + occ[3] >= u2 + u3}

\* the free-slot term of the objective for the assignment held
FreeSlotTerm ==
    maximize_nb_of_free_jewels(_vars.jewel_emplacement_sums,
                               _vars.jewel_uses_integers)

\* C9: the free-slot term is never negative and equals, for some placement
\* of the jewels, the sum over the sizes K in 1..3 of 10^K times the number
\* of size-K slots of the equipped armor and of the weapon left unoccupied.
C9_FreeSlotTerm ==
    Assigned =>
        /\ FreeSlotTerm >= 0
        /\ \E a \in Placements(Uses("Equip", 1), Uses("Equip", 2), Uses("Equip", 3),
                               ArmorSlots(1), ArmorSlots(2), ArmorSlots(3)) :
           \E w \in Placements(Uses("Weapon", 1), Uses("Weapon", 2), Uses("Weapon", 3),
                               WeaponSlots(1), WeaponSlots(2), WeaponSlots(3)) :
              FreeSlotTerm =
                  SumOver(1..3, [K \in 1..3 |->
                      (ArmorSlots(K) + WeaponSlots(K) - a[K] - w[K]) * Pow10(K)])

\* the overshoot scenario on talent t: the wish-list is the one item t with
\* target level 2, no armor piece, charm or weapon grants t, and the jewels
\* and slots of the model reach every level up to 4
Overshoot(t) ==
    /\ Len(talent_list) = 1
    /\ talent_list[1].name = t
    /\ talent_list[1].target_level = 2
    /\ \A r \in armor : r.talent_name # t
    /\ \A r \in charms : r.talent_name # t
    /\ \A r \in weapons : \A i \in DOMAIN r.talents : r.talents[i].name # t
    /\ \A l \in 1..4 : \E m \in model : m._vars.talent_sums_final[t] = l

EmptyWishCall ==
    /\ pc # "idle"
    /\ talent_list = <<>>
    /\ \E w \in weapons : w.name = weapon_dict.name

\* C11: with an empty wish-list and any weapon of the catalog, solve raises
\* nothing and the model it constructs is feasible: it holds the assignment
\* with no armor piece, no charm and zero uses of every jewel.
C11_EmptyWishSolved ==
    EmptyWishCall =>
        /\ pc # "raised"
        /\ \E m \in model : DecisionOf(m._vars) = EmptyDecision(catalog)

\* the wish-list is the one item t with weight 1 and no target
SingleWish(t) ==
    /\ Len(talent_list) = 1
    /\ talent_list[1] = Wish(t, 1, -1)

\* the final level of t in the all-empty build: what the weapon alone gives
EmptyBuildLevel(t) ==
    (CHOOSE m \in model : DecisionOf(m._vars) = EmptyDecision(catalog))
        ._vars.talent_sums_final[t]

\* some armor piece, charm or fitting jewel raises the final level of t
HasSource(t) ==
    \E m \in model : m._vars.talent_sums_final[t] > EmptyBuildLevel(t)

\* C12: when the wish-list is one talent with weight 1 and target -1 and
\* some source raises its final level above what the weapon alone gives,
\* every Solution returned with status OPTIMAL has a final level for the
\* talent strictly above that of the all-empty build.
C12_SingleWishRaised ==
    (pc = "returned" /\ status = "OPTIMAL") =>
        \A t \in DOMAIN _vars.talent_sums_final :
            (SingleWish(t) /\ HasSource(t))
                => _vars.talent_sums_final[t] > EmptyBuildLevel(t)

\* an optimal Solution of the single-wish scenario for a talent that only
\* jewels grant, the talent raised
C12_Witness ==
    /\ pc = "returned"
    /\ status = "OPTIMAL"
    /\ \E t \in DOMAIN _vars.talent_sums_final :
          /\ SingleWish(t)
          /\ HasSource(t)
          /\ \A r \in armor : r.talent_name # t
          /\ \A r \in charms : r.talent_name # t
          /\ _vars.talent_sums_final[t] > EmptyBuildLevel(t)

\* the value of the uses variable of one jewel
UsesOf(j) ==
    LET l == CHOOSE k \in DOMAIN _vars.jewel_uses_integers :
                j \in DOMAIN _vars.jewel_uses_integers[k]
    IN  _vars.jewel_uses_integers[l][j]

\* the jewels that have a uses variable
UsedJewels ==
    {j \in UNION {DOMAIN _vars.jewel_uses_integers[k] :
                    k \in DOMAIN _vars.jewel_uses_integers} : UsesOf(j) > 0}

\* the armor slots with a true indicator
FilledSlots ==
    {g \in DOMAIN _vars.use_armor_piece_booleans : EquippedIn(g) # {}}

\* C13: the Solution returned by solve holds exactly the weapon's name, one
\* entry per armor slot with a true indicator naming that piece, the charm
\* whose indicator is true if there is one, and under "jewels" exactly the
\* jewels whose uses are above 0, each with the value of its uses variable.
C13_SolutionContents ==
    pc = "returned" =>
        /\ DOMAIN solution = {"jewels", "weapon"} \cup FilledSlots
              \cup (IF EquippedCharms # {} THEN {"charm"} ELSE {})
        /\ solution["weapon"] = weapon_dict.name
        /\ \A g \in FilledSlots : solution[g] \in EquippedIn(g)
        /\ EquippedCharms # {} => solution["charm"] \in EquippedCharms
        /\ DOMAIN solution["jewels"] = UsedJewels
        /\ \A j \in UsedJewels : solution["jewels"][j] = UsesOf(j)

\* a Solution with one slot filled and one left empty, no charm, a jewel
\* used twice and another jewel not used
C13_Witness ==
    /\ pc = "returned"
    /\ FilledSlots # {}
    /\ FilledSlots # DOMAIN _vars.use_armor_piece_booleans
    /\ EquippedCharms = {}
    /\ \E j \in UsedJewels : solution["jewels"][j] = 2
    /\ \E k \in DOMAIN _vars.jewel_uses_integers :
          \E j \in DOMAIN _vars.jewel_uses_integers[k] : j \notin UsedJewels

UnknownWish ==
    \E i \in DOMAIN talent_list :
        \A x \in talents : x.name # talent_list[i].name

\* C15: a call for a weapon of the catalog whose wish-list names a talent
\* absent from the catalog ends with an error raised by solve itself before any function that creates
\* variables or constraints has run, and not with a bare lookup error.
C15_RejectedBeforeConstruction ==
    (pc # "idle" /\ UnknownWish /\ \E w \in weapons : w.name = weapon_dict.name) =>
        /\ pc = "raised"
        /\ raised.in = "solve"
        /\ raised.error # "KeyError"

\* the statuses under which the backend holds no assignment
NoAssignment == {"INFEASIBLE", "MODEL_INVALID"}

\* C16: when the backend reports INFEASIBLE or MODEL_INVALID, solve returns
\* a value that is not a Solution dictionary and reads no variable back.
C16_NoSolutionSignal ==
    status \in NoAssignment =>
        /\ pc = "returned"
        /\ raised = Unset
        /\ "weapon" \notin DOMAIN solution

\* C17: the value returned by solve carries the status of the backend: one
\* of its entries holds it, so that an OPTIMAL and a FEASIBLE result differ
\* for the caller.
C17_StatusInResult ==
    pc = "returned" =>
        \E k \in DOMAIN solution \ {"jewels"} : solution[k] = status

\* some armor piece, charm, weapon or jewel of the catalog references a
\* talent that has no row in talents
DanglingReference ==
    \E t \in {r.talent_name : r \in armor} \cup {r.talent_name : r \in charms}
                \cup {r.talent_name : r \in all_jewels(catalog)}
                \cup UNION {{w.talents[i].name : i \in DOMAIN w.talents} : w \in weapons} :
        \A x \in talents : x.name # t

\* C18: a catalog with a dangling talent reference is rejected when it is
\* loaded: no call of solve for one of its weapons is served against it,
\* and so nothing fails on the missing talent during model construction or
\* solving.
C18_DanglingRejectedAtLoad ==
    DanglingReference =>
        ~(pc # "idle" /\ \E w \in weapons : w.name = weapon_dict.name)

ArmorPart(t) ==
    LET rows == {r \in armor : r.talent_name = t /\ r.name \in EquippedIn(r.piece)}
    IN  SumOver(rows, [r \in rows |-> r.talent_level])

\* the catalog level of talent t on the equipped charm
CharmPart(t) ==
    LET rows == {r \in charms : r.talent_name = t /\ r.name \in EquippedCharms}
    IN  SumOver(rows, [r \in rows |-> r.talent_lvl])

\* the intrinsic level of talent t on the fixed weapon
WeaponPart(t) ==
    LET w == CHOOSE x \in weapons : x.name = weapon_dict.name
        is == {i \in DOMAIN w.talents : w.talents[i].name = t}
    IN  SumOver(is, [i \in is |-> w.talents[i].lvl])

\* uses x per-unit level over the jewels granting talent t
JewelPart(t) ==
    LET grants == {g \in [jewel : jewels, i : 1..3] :
                      /\ g.i \in DOMAIN g.jewel.jewel_talent_list
                      /\ g.jewel.jewel_talent_list[g.i].name = t}
    IN  SumOver(grants, [g \in grants |->
            UsesOf(g.jewel.name) * g.jewel.jewel_talent_list[g.i].lvl])

\* C20: in every feasible assignment the raw summed level of each talent
\* with a contribution is the sum of its catalog levels on the equipped
\* armor pieces, on the equipped charm and on the weapon, plus uses x
\* per-unit level for every jewel granting it.
C20_RawSum ==
    Assigned =>
        \A t \in DOMAIN _vars.talent_sums :
            _vars.talent_sums[t] =
                ArmorPart(t) + CharmPart(t) + WeaponPart(t) + JewelPart(t)

\* an assignment where one talent is fed by armor, charm and a jewel
\* granting two levels per use, and another by the weapon and a jewel
C20_Witness ==
    /\ Assigned
    /\ \E t \in DOMAIN _vars.talent_sums :
          /\ ArmorPart(t) > 0
          /\ CharmPart(t) > 0
          /\ JewelPart(t) > 1
    /\ \E t \in DOMAIN _vars.talent_sums :
          /\ WeaponPart(t) > 0
          /\ JewelPart(t) > 0

\* the wish items that enter the objective: the last entry of each talent
EffectiveItems ==
    {i \in DOMAIN talent_list :
        \A j \in DOMAIN talent_list :
            talent_list[j].name = talent_list[i].name => j <= i}

\* the wish score of one assignment of the model: final level x 10^weight
\* over the wish items, minus the target deviation penalties
WishScore(m) ==
    LET targeted == {i \in EffectiveItems : talent_list[i].target_level # -1}
    IN  SumOver(EffectiveItems, [i \in EffectiveItems |->
            m._vars.talent_sums_final[talent_list[i].name]
                * Pow10(talent_list[i].weight)])
        - SumOver(targeted, [i \in targeted |->
            Abs(m._vars.talent_sums_final[talent_list[i].name]
                    - talent_list[i].target_level)
                * Pow10(talent_list[i].weight)])

\* the free-slot term of one assignment of the model
FreeTermOf(m) ==
    maximize_nb_of_free_jewels(m._vars.jewel_emplacement_sums,
                               m._vars.jewel_uses_integers)

\* the sum of all talents' final levels of one assignment of the model
TalentCountOf(m) ==
    SumOver(DOMAIN m._vars.talent_sums_final, m._vars.talent_sums_final)

----------------------------------------------------------------------------
(* parallel_scrap (src/src/MH_Wilds_tools/scraper.py)                      *)
(*                                                                         *)
(* One coroutine process_item per element runs on the event loop; the      *)
(* coroutines interleave at their awaits: the acquire of the semaphore     *)
(* when it is locked, and the call of fn.  fn either returns the data of   *)
(* its element or raises.                                                  *)

\* longest chunk_iterator offered to parallel_scrap
MaxChunk == 3
\* largest max_concurrent offered to parallel_scrap
MaxConcurrent == 2

\* the elements a chunk_iterator is made of
Pages == {"p1", "p2"}

\* every list of at most n pages
RECURSIVE ChunkIterators(_)
ChunkIterators(n) ==
    IF n = 0 THEN {<<>>}
    ELSE ChunkIterators(n - 1)
            \cup {Append(c, p) : c \in {x \in ChunkIterators(n - 1) : Len(x) = n - 1},
                                 p \in Pages}

\* what fn returns for one element
fn(element) == [scraped |-> element]

\* no catalog is loaded and no call of solve is in progress
NoSolve ==
    /\ armor = {} /\ charms = {} /\ jewels = {} /\ talents = {} /\ weapons = {}
    /\ pc = "idle"
    /\ weapon_dict = Unset
    /\ talent_list = <<>>
    /\ model = {}
    /\ _vars = Unset
    /\ abs_diff = Unset
    /\ objective = Unset
    /\ status = "NONE"
    /\ solution = Unset
    /\ raised = Unset

\* parallel_scrap is called
InitScrap ==
    /\ NoSolve
    /\ scrap_pc = "called"
    /\ chunk_iterator \in ChunkIterators(MaxChunk)
    /\ max_concurrent \in 1..MaxConcurrent
    /\ semaphore = Unset
    /\ tasks = <<>>
    /\ fn_calls = <<>>
    /\ completed = <<>>
    /\ all_data = <<>>
    /\ NoPool
    /\ NoSlots
    /\ markdown = NotRendered
    /\ NoCli

\* lines 72-85: the semaphore is created, one coroutine is made per element
\* and as_completed schedules them all
parallel_scrap_schedule ==
    /\ scrap_pc = "called"
    /\ scrap_pc' = "gathering"
    /\ semaphore' = [_value |-> max_concurrent, _waiters |-> <<>>]
    /\ tasks' = [i \in DOMAIN chunk_iterator |-> "scheduled"]
    /\ fn_calls' = [i \in DOMAIN chunk_iterator |-> 0]
    /\ UNCHANGED <<chunk_iterator, max_concurrent, completed, all_data>>
    /\ UNCHANGED beyond_scrap

\* process_item entering fn whatever the semaphore holds
process_item_acquire_unbounded(i) ==
    /\ i \in DOMAIN tasks
    /\ tasks[i] = "scheduled"
    /\ tasks' = [tasks EXCEPT ![i] = "in_fn"]
    /\ fn_calls' = [fn_calls EXCEPT ![i] = @ + 1]
    /\ UNCHANGED <<scrap_pc, chunk_iterator, max_concurrent, semaphore,
                   completed, all_data>>
    /\ UNCHANGED beyond_scrap

\* lines 76-78: process_item starts; "async with semaphore" takes a unit
\* and calls fn when the semaphore is not locked, and queues the coroutine
\* behind the waiters when it is
process_item_acquire(i) ==
    /\ i \in DOMAIN tasks
    /\ tasks[i] = "scheduled"
    /\ IF semaphore._value > 0 /\ semaphore._waiters = <<>>
       THEN /\ semaphore' = [semaphore EXCEPT !._value = @ - 1]
            /\ tasks' = [tasks EXCEPT ![i] = "in_fn"]
            /\ fn_calls' = [fn_calls EXCEPT ![i] = @ + 1]
       ELSE /\ semaphore' = [semaphore EXCEPT !._waiters = Append(@, i)]
            /\ tasks' = [tasks EXCEPT ![i] = "waiting"]
            /\ UNCHANGED fn_calls
    /\ UNCHANGED <<scrap_pc, chunk_iterator, max_concurrent, completed, all_data>>
    /\ UNCHANGED beyond_scrap

\* line 78: a coroutine woken by a release resumes and calls fn
process_item_resume(i) ==
    /\ i \in DOMAIN tasks
    /\ tasks[i] = "woken"
    /\ tasks' = [tasks EXCEPT ![i] = "in_fn"]
    /\ fn_calls' = [fn_calls EXCEPT ![i] = @ + 1]
    /\ UNCHANGED <<scrap_pc, chunk_iterator, max_concurrent, semaphore,
                   completed, all_data>>
    /\ UNCHANGED beyond_scrap

\* lines 77-78: fn returns or raises; the exit of "async with" releases the
\* semaphore, which hands the unit to the first waiter if there is one, and
\* the coroutine is finished
process_item_release(i, outcome) ==
    /\ i \in DOMAIN tasks
    /\ tasks[i] = "in_fn"
    /\ IF semaphore._waiters = <<>>
       THEN /\ semaphore' = [semaphore EXCEPT !._value = @ + 1]
            /\ tasks' = [tasks EXCEPT ![i] = outcome]
       ELSE /\ semaphore' = [semaphore EXCEPT !._waiters = Tail(@)]
            /\ tasks' = [tasks EXCEPT ![i] = outcome,
                                      ![Head(semaphore._waiters)] = "woken"]
    /\ completed' = Append(completed, i)
    /\ UNCHANGED <<scrap_pc, chunk_iterator, max_concurrent, fn_calls, all_data>>
    /\ UNCHANGED beyond_scrap

\* lines 84-86: as_completed yields the next finished coroutine; its result
\* is appended to all_data, or its exception leaves parallel_scrap
parallel_scrap_gather ==
    /\ scrap_pc = "gathering"
    /\ completed # <<>>
    /\ IF tasks[Head(completed)] = "returned"
       THEN /\ all_data' = Append(all_data, fn(chunk_iterator[Head(completed)]))
            /\ UNCHANGED scrap_pc
       ELSE /\ scrap_pc' = "raised"
            /\ UNCHANGED all_data
    /\ completed' = Tail(completed)
    /\ UNCHANGED <<chunk_iterator, max_concurrent, semaphore, tasks, fn_calls>>
    /\ UNCHANGED beyond_scrap

\* line 88: every coroutine has been yielded and all_data is returned
parallel_scrap_return ==
    /\ scrap_pc = "gathering"
    /\ Len(all_data) = Len(tasks)
    /\ scrap_pc' = "returned"
    /\ UNCHANGED <<chunk_iterator, max_concurrent, semaphore, tasks, fn_calls,
                   completed, all_data>>
    /\ UNCHANGED beyond_scrap

NextScrap ==
    \/ parallel_scrap_schedule
    \/ \E i \in 1..MaxChunk : process_item_acquire(i)
    \/ \E i \in 1..MaxChunk : process_item_resume(i)
    \/ \E i \in 1..MaxChunk, outcome \in {"returned", "raised"} :
          process_item_release(i, outcome)
    \/ parallel_scrap_gather
    \/ parallel_scrap_return

SpecScrap == InitScrap /\ [][NextScrap]_vars

\* the coroutines whose invocation of fn is in progress
InProgress == {i \in DOMAIN tasks : tasks[i] = "in_fn"}

\* how many entries of a sequence equal x
Count(s, x) == Cardinality({k \in DOMAIN s : s[k] = x})

\* C22: at every instant at most max_concurrent invocations of fn are in
\* progress; no element is passed to fn twice; and when parallel_scrap
\* returns, every element has been passed to fn once and the returned list
\* holds one result per element.
C22_BoundedConcurrency ==
    /\ Cardinality(InProgress) <= max_concurrent
    /\ \A i \in DOMAIN fn_calls : fn_calls[i] <= 1
    /\ scrap_pc = "returned" =>
          /\ \A i \in DOMAIN chunk_iterator : fn_calls[i] = 1
          /\ Len(all_data) = Len(chunk_iterator)
          /\ \A p \in Pages : Count(all_data, fn(p)) = Count(chunk_iterator, p)

\* a call with more elements than max_concurrent has returned, a coroutine
\* had to wait for the semaphore, and the results are not in the order of
\* the elements
C22_Witness ==
    /\ scrap_pc = "returned"
    /\ Len(chunk_iterator) > max_concurrent
    /\ all_data # [i \in DOMAIN chunk_iterator |-> fn(chunk_iterator[i])]

----------------------------------------------------------------------------
(* One pool of slots and its jewels                                        *)

\* largest slot count and largest use count of one size offered to a pool
MaxPool == 2

\* the catalog the pool takes its jewels from: one Equip jewel of each size
\* and a jewel of the other group
PoolCatalog == CatalogMixed

\* the jewel_uses_integers where the Equip jewel of each size has the given
\* uses, next to one use of the jewel of the other group
pool_uses(u) ==
    [l \in 1..3 |->
        [n \in jewel_names_of_lvl(PoolCatalog, l) |->
            IF \E x \in jewel_types(PoolCatalog) :
                    x.jewel_name = n /\ x.group = "Equip"
            THEN u[l] ELSE 1]]

\* the slot counts and the uses of the pool are given
InitPool ==
    /\ NoSolve
    /\ NoScrap
    /\ emplacement_sums \in [1..3 -> 0..MaxPool]
    /\ jewel_uses \in [1..3 -> 0..MaxPool]
    /\ admitted = "pending"
    /\ NoSlots
    /\ markdown = NotRendered
    /\ NoCli

\* lines 462-494: the three inequalities are evaluated on the pool
add_jewel_usage_constraints ==
    /\ admitted = "pending"
    /\ admitted' = IF _add_jewel_usage_constraints(
                          PoolCatalog, pool_uses(jewel_uses), "Equip",
                          emplacement_sums)
                   THEN "yes" ELSE "no"
    /\ UNCHANGED <<emplacement_sums, jewel_uses>>
    /\ UNCHANGED beyond_pool

NextPool == add_jewel_usage_constraints

SpecPool == InitPool /\ [][NextPool]_vars

\* Every jewel can be given a slot of its own at least as large as itself:
\* x23 of the size-2 jewels go to size-3 slots and the others to size-2
\* slots, x12 and x13 of the size-1 jewels go to size-2 and size-3 slots and
\* the others to size-1 slots, the size-3 jewels go to size-3 slots, and no
\* size of slot receives more jewels than it has slots.
PlacementExists(u, s) ==
    \E x23 \in 0..u[2] : \E x12 \in 0..u[1] : \E x13 \in 0..(u[1] - x12) :
        /\ u[1] - x12 - x13 <= s[1]
        /\ (u[2] - x23) + x12 <= s[2]
        /\ u[3] + x23 + x13 <= s[3]

\* C23: for any slot counts and jewel counts of one pool, the three
\* inequalities of _add_jewel_usage_constraints hold if and only if every
\* jewel can be assigned a distinct slot of the pool at least as large as
\* the jewel.
C23_FitExact ==
    admitted # "pending" =>
        (admitted = "yes" <=> PlacementExists(jewel_uses, emplacement_sums))

\* a full pool admitted although its size-1 jewels do not fit its size-1
\* slots, a size-3 jewel being in use
C23_Witness ==
    /\ admitted = "yes"
    /\ jewel_uses[1] > emplacement_sums[1]
    /\ jewel_uses[3] > 0
    /\ jewel_uses[1] + jewel_uses[2] + jewel_uses[3]
          = emplacement_sums[1] + emplacement_sums[2] + emplacement_sums[3]

\* C24: in every Solution the uses of all the jewels of the catalog,
\* whatever their talents and their size, total at most the size-1..3 slots
\* of the equipped armor pieces plus those of the weapon.
C24_NoJewelEscapes ==
    pc = "returned" =>
        LET names == UNION {DOMAIN _vars.jewel_uses_integers[k] :
                                k \in DOMAIN _vars.jewel_uses_integers}
            JewelsInserted == SumOver(names, [j \in names |-> UsesOf(j)])
        IN  JewelsInserted <= ArmorSlots(1) + ArmorSlots(2) + ArmorSlots(3)
                            + WeaponSlots(1) + WeaponSlots(2) + WeaponSlots(3)

----------------------------------------------------------------------------
(* The armor capacity of one slot in the two versions of the solver        *)

\* the selections of armor pieces with at most one piece per slot
Selections(cat) ==
    {ua \in FunsIn([g \in Range(gear_types(cat)) |->
                [Range(unique_armor_pieces_names(cat, g)) -> BOOLEAN]]) :
        \A g \in Range(gear_types(cat)) : _process_armor_pieces(cat, ua, g)}

\* a catalog is loaded, a selection of pieces and an armor slot are given
InitSlots ==
    /\ \E cat \in Catalogs :
          /\ armor = cat.armor
          /\ charms = cat.charms
          /\ jewels = cat.jewels
          /\ talents = cat.talents
          /\ weapons = cat.weapons
          /\ use_armor_piece_booleans \in Selections(cat)
          /\ gear_type \in Range(gear_types(cat))
    /\ pc = "idle"
    /\ weapon_dict = Unset
    /\ talent_list = <<>>
    /\ model = {}
    /\ _vars = Unset
    /\ abs_diff = Unset
    /\ objective = Unset
    /\ status = "NONE"
    /\ solution = Unset
    /\ raised = Unset
    /\ sums_modular = Unset
    /\ sums_legacy = Unset
    /\ NoScrap
    /\ NoPool
    /\ markdown = NotRendered
    /\ NoCli

\* src/src/MH_Wilds_tools/solver.py, lines 150-213, on the slot
create_jewel_slots_modular ==
    /\ sums_modular = Unset
    /\ sums_modular' \in _create_jewel_slots_for_armor_pieces(
                            catalog, use_armor_piece_booleans, gear_type)
    /\ UNCHANGED <<use_armor_piece_booleans, gear_type, sums_legacy>>
    /\ UNCHANGED beyond_slots

\* src/solver.py, lines 150-211, on the slot
create_jewel_slots_legacy ==
    /\ sums_legacy = Unset
    /\ sums_legacy' \in legacy_create_jewel_slots_for_armor_pieces(
                            catalog, use_armor_piece_booleans, gear_type)
    /\ UNCHANGED <<use_armor_piece_booleans, gear_type, sums_modular>>
    /\ UNCHANGED beyond_slots

NextSlots ==
    \/ create_jewel_slots_modular
    \/ create_jewel_slots_legacy

SpecSlots == InitSlots /\ [][NextSlots]_vars

\* the size-K slots of the selected pieces of the slot, each piece once
CapacityOnce(K) ==
    LET names == {n \in DOMAIN use_armor_piece_booleans[gear_type] :
                    use_armor_piece_booleans[gear_type][n]}
    IN  SumOver(names, [n \in names |-> jewel_levels(catalog, gear_type, n, K)])

\* C25: in the modular and in the legacy solver the capacity of the armor
\* pool for slot size K is the sum over the selected pieces of the piece's
\* size-K slot count, each piece counted once however many rows it has;
\* both impose the same capacity for the same selection.
C25_ArmorCapacityOnce ==
    /\ sums_modular # Unset =>
          \A K \in 1..4 : sums_modular[K] = CapacityOnce(K)
    /\ sums_legacy # Unset =>
          \A K \in 1..4 : sums_legacy[K] = CapacityOnce(K)
    /\ (sums_modular # Unset /\ sums_legacy # Unset) => sums_modular = sums_legacy

\* the contributions to talent t of the equipped armor pieces, the equipped
\* charm, the weapon and the jewels in use, read from the catalog
RawContribution(t) ==
    ArmorPart(t) + CharmPart(t) + WeaponPart(t) + JewelPart(t)

\* C26: in every feasible assignment the contributions of armor, charm,
\* weapon and jewels to any one talent total at most 30, whatever the
\* talent's maximum level: a combination totalling more is not an
\* assignment of the model.
C26_RawSumWithinBound ==
    Assigned =>
        \A t \in DOMAIN _vars.talent_sums :
            /\ RawContribution(t) <= TalentUb
            /\ _vars.talent_sums[t] = RawContribution(t)

\* an assignment whose contributions to a talent total exactly 30, far
\* above the talent's maximum, while a jewel granting the talent is unused
\* and free slots of the armor and of the weapon would take it
C26_Witness ==
    /\ Assigned
    /\ \E t \in DOMAIN _vars.talent_sums :
          /\ RawContribution(t) = TalentUb
          /\ DeclaredMax(t) < TalentUb
          /\ \E j \in jewels :
                /\ \E i \in DOMAIN j.jewel_talent_list :
                      j.jewel_talent_list[i].name = t
                /\ j.jewel_lvl = 1
                /\ UsesOf(j.name) = 0
          /\ TotalUses("Equip") < ArmorSlots(1)
          /\ TotalUses("Weapon") < WeaponSlots(2)

\* the talents that an armor piece, a charm, a jewel or the chosen weapon
\* of the catalog grants
Granted ==
    {r.talent_name : r \in armor} \cup {r.talent_name : r \in charms}
        \cup UNION {{j.jewel_talent_list[i].name : i \in DOMAIN j.jewel_talent_list}
                        : j \in jewels}
        \cup UNION {{w.talents[i].name :
                        i \in {k \in DOMAIN w.talents : w.talents[k].lvl > 0}}
                        : w \in {x \in weapons : x.name = weapon_dict.name}}

\* some Group or Series talent of the talent catalog receives no contribution
Sourceless ==
    \E t \in talents : t.group \in {"Group", "Series"} /\ t.name \notin Granted

\* C27: when some Group or Series talent receives no contribution from any
\* armor piece, charm, jewel or the chosen weapon, every call of solve,
\* whatever its wish-list, ends during model construction with a lookup
\* error (KeyError or IndexError) and returns no Solution.
C27_SourcelessRaises ==
    (pc # "idle" /\ Sourceless) =>
        /\ pc = "raised"
        /\ raised.error \in {"KeyError", "IndexError"}
        /\ raised.in # "solve"
        /\ model = {}
        /\ solution = Unset

\* a call with the empty wish-list and a weapon of the catalog that ended
\* on the lookup of the capped sum of a Series talent nothing grants
C27_Witness ==
    /\ pc = "raised"
    /\ Sourceless
    /\ talent_list = <<>>
    /\ \E w \in weapons : w.name = weapon_dict.name
    /\ raised.in = "_set_series_talent_minimum_required_levels"
    /\ raised.error = "KeyError"
    /\ \E t \in talents : t.group = "Series" /\ t.name \notin Granted
                            /\ raised.key = t.name

\* C28: the wish terms of the objective are those of the last entry of each
\* talent: the achievement and the deviation penalty are computed with its
\* weight and its target level, and an entry followed by another entry for
\* the same talent contributes neither.
C28_LastEntryWins ==
    pc = "constructed" =>
        \A m \in model :
            /\ m.objective.hi = WishScore(m)
            /\ DOMAIN m.abs_diff =
                  {talent_list[i].name :
                      i \in {k \in EffectiveItems : talent_list[k].target_level # -1}}

\* a model constructed for a wish-list whose first entry, with a target and
\* another weight, is followed by an entry for the same talent; one of its
\* assignments gives the talent a level off the first entry's target
C28_Witness ==
    /\ pc = "constructed"
    /\ \E i \in DOMAIN talent_list \ EffectiveItems : \E k \in EffectiveItems :
          /\ talent_list[k].name = talent_list[i].name
          /\ talent_list[k].weight # talent_list[i].weight
          /\ talent_list[i].target_level # -1
          /\ talent_list[k].target_level = -1
          /\ \E m \in model :
                /\ m._vars.talent_sums_final[talent_list[i].name] > 0
                /\ m._vars.talent_sums_final[talent_list[i].name]
                      # talent_list[i].target_level

\* the catalog offers a piece for every armor slot the display reads, and
\* a charm
Wearable ==
    /\ \A g \in Range(armor_types) : \E r \in armor : r.piece = g
    /\ charms # {}

\* C29: every Solution returned by solve has the key "charm" and a key for
\* each armor slot, and neither generate_markdown_from_solution nor
\* generate_markdown_for_jewels fails on a missing key when given it.
C29_Renderable ==
    Wearable =>
        /\ pc = "returned" =>
              {"charm"} \cup Range(armor_types) \subseteq DOMAIN solution
        /\ \A f \in DOMAIN markdown :
              markdown[f] # Unset => markdown[f].error = "none"

----------------------------------------------------------------------------
(* The CLI (src/src/MH_Wilds_tools/entrypoints.py)                         *)
(*                                                                         *)
(* A line is kept as the list of its words after text.strip().lower() and  *)
(* split(): the empty list is the empty line, or one made of blanks.  The  *)
(* scrapers awaited by command_dispatcher are taken to return.             *)

\* the lines typed at the prompt: at most two words
Lines ==
    LET Words == {"help", "exit", "scrape", "app", "all", "quests", "armors",
                  "charms", "jewels", "skills", "start", "stop", "foo"}
    IN  {<<>>} \cup {<<w>> : w \in Words}
            \cup {<<w1, w2>> : w1 \in Words, w2 \in Words}

\* main has printed its welcome and shows the first prompt
InitCli ==
    /\ NoSolve
    /\ NoScrap
    /\ NoPool
    /\ NoSlots
    /\ markdown = NotRendered
    /\ cli_pc = "prompt"
    /\ command = Unset
    /\ printed = "Welcome"
    /\ cli_raised = Unset

\* lines 147-157: a line is read; "exit" ends the loop, any other line goes
\* to command_dispatcher
main_prompt(text) ==
    /\ cli_pc = "prompt"
    /\ command' = text
    /\ IF text = <<"exit">>
       THEN /\ printed' = "Goodbye!"
            /\ cli_pc' = "ended"
       ELSE /\ cli_pc' = "dispatching"
            /\ UNCHANGED printed
    /\ UNCHANGED cli_raised
    /\ UNCHANGED beyond_cli

\* lines 158-160: Ctrl+C at the prompt raises KeyboardInterrupt, which the
\* loop catches
main_KeyboardInterrupt ==
    /\ cli_pc = "prompt"
    /\ printed' = "Use 'exit' to quit"
    /\ UNCHANGED <<cli_pc, command, cli_raised>>
    /\ UNCHANGED beyond_cli

\* lines 161-164: Ctrl+D at the prompt raises EOFError, which ends the loop
main_EOFError ==
    /\ cli_pc = "prompt"
    /\ printed' = "Goodbye!"
    /\ cli_pc' = "ended"
    /\ UNCHANGED <<command, cli_raised>>
    /\ UNCHANGED beyond_cli

\* lines 70-124: command_dispatcher; command_parts[0] raises IndexError on
\* a line without a word, and nothing in main catches it
command_dispatcher ==
    /\ cli_pc = "dispatching"
    /\ LET command_parts == command
           subcommand == IF Len(command_parts) > 1 THEN command_parts[2]
                         ELSE "None"
           \* the last message printed for a scrape subcommand
           scrape_message ==
               CASE subcommand = "all"    -> "Scraping skills data..."
                 [] subcommand = "quests" -> "Scraping quests data..."
                 [] subcommand = "armors" -> "Scraping armor data ..."
                 [] subcommand = "charms" -> "Scraping charms data ..."
                 [] subcommand = "jewels" -> "Scraping jewels data ..."
                 [] subcommand = "skills" -> "Scraping skills data ..."
                 [] OTHER                 -> "Usage: scrape all"
       IN  IF command_parts = <<>>
           THEN /\ cli_pc' = "raised"
                /\ cli_raised' = [in |-> "command_dispatcher",
                                  error |-> "IndexError"]
                /\ UNCHANGED printed
           ELSE /\ cli_pc' = "prompt"
                /\ UNCHANGED cli_raised
                /\ printed' =
                      CASE command_parts[1] = "help" -> "help_str"
                        [] command_parts[1] = "scrape" -> scrape_message
                        [] command_parts[1] = "app" ->
                              (IF subcommand = "start" THEN "Starting app..."
                               ELSE IF subcommand = "stop" THEN "Stopping app..."
                               ELSE "Usage: app [start|stop]")
                        [] OTHER ->
                              "Invalid command. Type 'help' for a list of commands."
    /\ UNCHANGED command
    /\ UNCHANGED beyond_cli

NextCli ==
    \/ \E text \in Lines : main_prompt(text)
    \/ main_KeyboardInterrupt
    \/ main_EOFError
    \/ command_dispatcher

SpecCli == InitCli /\ [][NextCli]_vars

\* C30: no exception leaves the main loop; a line other than "exit", the
\* empty line included, is handed to command_dispatcher, which returns to a
\* new prompt; the loop ends only after "exit" or end-of-input.
C30_LoopSurvives ==
    /\ cli_pc # "raised"
    /\ cli_pc = "dispatching" => command # <<"exit">>
    /\ cli_pc = "ended" => printed = "Goodbye!"

====
